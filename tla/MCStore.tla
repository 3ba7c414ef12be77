------------------------------ MODULE MCStore ------------------------------
(* Store for TLC: three concurrent callers and two declared schemas of a  *)
(* table a with a nested table b, one of which declares b's a_id itself.  *)
EXTENDS Store, TLC

Tbl(n, fs, ts) == [name |-> n, fields |-> fs, tables |-> ts]

MCTableSets ==
    { <<Tbl("a", <<>>, <<Tbl("b", <<"a_id">>, <<>>)>>)>>,
      <<Tbl("a", <<"x">>, <<Tbl("b", <<>>, <<>>)>>)>> }

ClientSymmetry == Permutations(Clients)
=============================================================================
