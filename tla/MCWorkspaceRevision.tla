------------------------- MODULE MCWorkspaceRevision -------------------------
(* Two projects and a library directory: unit A may also appear beside the   *)
(* project, A and B use each other, B may declare another name, an include   *)
(* file and the settings may change.                                         *)
EXTENDS WorkspaceRevision

CONSTANTS prj, lib, absent, noFile, noName, unresolved, def

MCNames == {"P", "Q", "A", "B", "x"}
MCDotted == {"V.F"}
PDpr == <<prj, "P", "dpr">>   QDpr == <<prj, "Q", "dpr">>   PProj == <<prj, "P", "dproj">>
A1 == <<prj, "A", "pas">>     A2 == <<lib, "A", "pas">>     B2 == <<lib, "B", "pas">>
X1 == <<prj, "x", "inc">>     X2 == <<lib, "x", "inc">>     PCfg == <<prj, "P", "cfg">>
Toml == <<prj, "lsp", "toml">>

Empty == [parse |-> "ok", declares |-> noName, uses |-> <<>>, includes |-> <<>>,
          items |-> <<>>, only |-> {}, without |-> {}, hidden |-> {}]
Unit(n, uses) == [Empty EXCEPT !.declares = n, !.uses = uses]
Uses(n) == <<n, noFile>>

MCTexts ==
    [f \in {PDpr, QDpr, PProj, A1, A2, B2, X1, X2, PCfg, Toml} |->
        CASE f = PDpr -> {Unit("P", <<Uses("V.F"), Uses("A")>>)}
          [] f = QDpr -> {Unit("Q", <<<<"B", B2>>>>), absent}
          [] f = PProj -> {[Empty EXCEPT !.items = <<<<"search", lib>>, <<"define", def>>,
                                                     <<"main", PDpr>>, <<"define", unresolved>>>>],
                           [Empty EXCEPT !.items = <<<<"reference", A2>>>>],
                           [Empty EXCEPT !.parse = "raises"], absent}
          [] f = PCfg -> {[Empty EXCEPT !.items = <<<<"include", lib>>>>]}
          [] f = A1 -> {[Unit("A", <<>>) EXCEPT !.parse = "partial"]}
          [] f = A2 -> {[Unit("A", <<Uses("B")>>) EXCEPT !.includes = <<"x">>],
                        [Empty EXCEPT !.parse = "undecodable"], absent}
          [] f = B2 -> {Unit("B", <<Uses("A")>>), Unit("C", <<Uses("B")>>)}
          [] f = X1 -> {Empty}
          [] f = X2 -> {Empty, [Empty EXCEPT !.parse = "undecodable"]}
          [] f = Toml -> {[Empty EXCEPT !.hidden = {A2}], [Empty EXCEPT !.without = {PProj}],
                          [Empty EXCEPT !.parse = "raises"]}]

First(f) == [text |-> CHOOSE t \in MCTexts[f] \ {absent} : t.parse = "ok" /\ t.declares # "C"
                          /\ (f = PProj => Len(t.items) > 1), stamp |-> 1]
MCFirstDisk == [f \in DOMAIN MCTexts |-> IF f \in {A1, X1, Toml} THEN absent ELSE First(f)]

-----------------------------------------------------------------------------
(* What a fresh walk makes of a disk                                         *)

RECURSIVE WalkToEnd(_, _, _)
WalkToEnd(walk, d, set) ==
    IF Finished(walk) THEN walk ELSE WalkToEnd(Turn(walk, d, set), d, set)

Recompute(p, d) ==
    LET disc == Discover(p, d)
    IN IF p = Workspace THEN Catalog(disc)
       ELSE Result(WalkToEnd(Start(p), d, Settings(p, disc)))

\* What the fingerprint is for: while no edit fell into the selection that made
\* a cached result, an equal fingerprint (project_file and discovery taken anew)
\* means that indexing again would give the very same result.
EqualFingerprintEqualIndex ==
    pc = "idle" => \A p \in Selectable :
        LET c == cache[p]
        IN (/\ c.known /\ c.clean /\ ~DiscoveryFails(p, disk)
            /\ Fingerprint(Discover(p, disk), c.result, disk) = c.revision)
           => c.result = Recompute(p, disk)

=============================================================================
