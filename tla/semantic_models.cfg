SPECIFICATION Spec
CONSTANT Projects <- AllProjects
INVARIANTS NamesIgnoreFileOrder MembersAreNearest
CHECK_DEADLOCK FALSE
