CONSTANT MaxResources = 4
SPECIFICATION Spec
PROPERTY RunReturns
