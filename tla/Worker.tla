------------------------------- MODULE Worker -------------------------------
(***************************************************************************)
(* The agent's Worker component, src/agent/component/worker/worker.go     *)
(* lines 43-176.                                                          *)
(*                                                                         *)
(* Run makes an error channel of capacity 1, defers its close, starts the  *)
(* run goroutine and waits for either an error on the channel or the end   *)
(* of the agent context.  The run goroutine polls the data store until it  *)
(* returns pipeline_run resources, forms a resource from each, and runs    *)
(* them; every failure is sent on the channel and run carries on.          *)
(*                                                                         *)
(* Two goroutines: Run (rpc) and run (wpc).  The agent context is the      *)
(* environment: it may be cancelled at any time.  A send on a closed       *)
(* channel panics, and a panic in a goroutine ends the program.            *)
(* Errors are abstracted to the step that produced them.                  *)
(***************************************************************************)
EXTENDS Naturals, Sequences

CONSTANTS
    MaxResources    \* most pipeline_run resources one reply carries

ASSUME MaxResources \in Nat \ {0}

CtxErr == "context canceled"
None   == "none"
ChanCap == 1        \* ch := make(chan error, 1)

VARIABLES
    rpc,        \* Run: "select" or "returned"
    wpc,        \* run: the step it is at
    i, n,       \* run: current resource and the number in the reply
    pending,    \* run: the error it is sending, and the step after the send
    ch,         \* the channel's buffer
    closed,     \* close(ch) has happened
    ctxDone,    \* agentContext.Done() is closed
    result,     \* the error Run returned
    failed,     \* history: the errors run met, in order
    panicked    \* a goroutine panicked: the program is gone

vars == <<rpc, wpc, i, n, pending, ch, closed, ctxDone, result, failed, panicked>>

Init ==
    /\ rpc = "select"
    /\ wpc = "poll"
    /\ i = 0 /\ n = 0
    /\ pending = [err |-> None, next |-> None]
    /\ ch = <<>>
    /\ closed = FALSE
    /\ ctxDone = FALSE
    /\ result = None
    /\ failed = <<>>
    /\ panicked = FALSE

-----------------------------------------------------------------------------
(* The run goroutine.                                                     *)

\* run's next step after resource i has been formed (the range loop)
AfterResource == IF i < n THEN "resourceBlock" ELSE "interval"

\* Mutant: the failure is not sent; run only goes on.
sendDropped(e, next) ==
    /\ failed' = Append(failed, e)
    /\ wpc' = next
    /\ UNCHANGED pending

\* `ch <- err` without a return: the send is a step of its own (it may
\* block), after which run goes on at next.
send(e, next) ==
    /\ failed' = Append(failed, e)
    /\ pending' = [err |-> e, next |-> next]
    /\ wpc' = "send"

(* pollResources (lines 66-108): one Request.  Unless the reply holds a    *)
(* non-empty list of resources (request error, nil or undecodable data,   *)
(* empty list) it logs and sleeps, and tries again; it never returns an   *)
(* error, so the send of lines 143-145 is never taken.                    *)
pollResources ==
    /\ wpc = "poll"
    /\ \/ wpc' = "sleep"
       \/ wpc' = "unmarshal"
    /\ UNCHANGED <<i, n, pending, failed>>

Sleep ==
    /\ wpc = "sleep"
    /\ wpc' = "poll"
    /\ UNCHANGED <<i, n, pending, failed>>

(* json.Unmarshal of the reply (lines 147-151): the same bytes decoded    *)
(* into the same type already succeeded in pollResources, so it succeeds  *)
(* and yields the non-empty list.                                          *)
Unmarshal ==
    /\ wpc = "unmarshal"
    /\ \E k \in 1..MaxResources : n' = k
    /\ i' = 1
    /\ wpc' = "resourceBlock"
    /\ UNCHANGED <<pending, failed>>

(* resBlockJSON.ResourceBlock() (lines 156-160).                          *)
ResourceBlock ==
    /\ wpc = "resourceBlock"
    /\ \/ wpc' = "newResource" /\ UNCHANGED <<failed, pending>>
       \/ send("resourceBlock", "newResource")
    /\ UNCHANGED <<i, n>>

(* api.NewResource(&resBlock) and the append (lines 161-167), then the    *)
(* next iteration of the loop.                                             *)
NewResource ==
    /\ wpc = "newResource"
    /\ \/ wpc' = AfterResource /\ UNCHANGED <<failed, pending>>
       \/ send("newResource", AfterResource)
    /\ i' = i + 1
    /\ UNCHANGED n

(* w.ResourceWorker.Run(bCtx, resources) (lines 172-175); run returns.    *)
IntervalRun ==
    /\ wpc = "interval"
    /\ \/ wpc' = "exit" /\ UNCHANGED <<failed, pending>>
       \/ send("interval", "exit")
    /\ UNCHANGED <<i, n>>

(* The send itself: into the buffer when there is room, blocked while it  *)
(* is full, and a panic once the channel is closed (also for a send that  *)
(* was blocked when the close happened).                                   *)
Send ==
    /\ wpc = "send"
    /\ \/ /\ closed
          /\ panicked' = TRUE
          /\ UNCHANGED <<wpc, ch>>
       \/ /\ ~closed
          /\ Len(ch) < ChanCap
          /\ ch' = Append(ch, pending.err)
          /\ wpc' = pending.next
          /\ UNCHANGED panicked
    /\ UNCHANGED <<rpc, i, n, pending, closed, ctxDone, result, failed>>

RunGoroutineStep ==
    /\ ~panicked
    /\ \/ pollResources \/ Sleep \/ Unmarshal \/ ResourceBlock
       \/ NewResource \/ IntervalRun
    /\ UNCHANGED <<rpc, ch, closed, ctxDone, result, panicked>>

-----------------------------------------------------------------------------
\* Mutant: Run waits on ch alone, without the agent context case.
RunSelectChannelOnly ==
    /\ ~panicked
    /\ rpc = "select"
    /\ ch # <<>>
    /\ result' = Head(ch)
    /\ ch' = Tail(ch)
    /\ closed' = TRUE
    /\ rpc' = "returned"
    /\ UNCHANGED <<wpc, i, n, pending, ctxDone, failed, panicked>>

(* Run (lines 114-136): the select, then return and the deferred          *)
(* close(ch).  Go picks either ready case.                                *)
RunSelect ==
    /\ ~panicked
    /\ rpc = "select"
    /\ \/ /\ ch # <<>>
          /\ result' = Head(ch)
          /\ ch' = Tail(ch)
       \/ /\ ctxDone
          /\ result' = CtxErr
          /\ UNCHANGED ch
    /\ closed' = TRUE
    /\ rpc' = "returned"
    /\ UNCHANGED <<wpc, i, n, pending, ctxDone, failed, panicked>>

(* Another agent component fails and the agent context is cancelled.      *)
Cancel ==
    /\ ~panicked
    /\ ~ctxDone
    /\ ctxDone' = TRUE
    /\ UNCHANGED <<rpc, wpc, i, n, pending, ch, closed, result, failed, panicked>>

\* The program has ended: a panic, or both goroutines have returned.
Terminated ==
    /\ panicked \/ (rpc = "returned" /\ wpc = "exit")
    /\ UNCHANGED vars

Next == RunGoroutineStep \/ Send \/ RunSelect \/ Cancel \/ Terminated

\* The Go scheduler runs every runnable goroutine; the context is not
\* required ever to be cancelled.
Fairness ==
    /\ WF_vars(RunGoroutineStep)
    /\ WF_vars(Send)
    /\ WF_vars(RunSelect)

Spec == Init /\ [][Next]_vars /\ Fairness

-----------------------------------------------------------------------------
(* Properties.                                                            *)

(* Run returns (or the program is gone) once either of its select cases  *)
(* can fire: a failure of the run goroutine reaches it through the        *)
(* buffered channel even if the agent context is never cancelled, and the *)
(* end of the agent context ends it even if run never fails (run may poll *)
(* forever and never sends then).                                          *)
RunReturns ==
    (failed # <<>> \/ ctxDone) ~> (rpc = "returned" \/ panicked)

(* run never sends on the channel after Run has closed it: Run's          *)
(* `defer close(ch)` and run's sends without a return (lines 144, 150,    *)
(* 159, 164, 174) must never meet, which a panic of the agent would show. *)
NoSendOnClosedChannel == ~panicked

=============================================================================
