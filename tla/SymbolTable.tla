------------------------------ MODULE SymbolTable ------------------------------
(***************************************************************************)
(* Scopes, symbols, type references and the index of units                 *)
(* (src/delphi_lsp/semantic.py).  A name is a sequence of identifiers, in  *)
(* one case and without generic arguments.  Scopes and symbols are         *)
(* numbered in the order they are made; 0 is none.                         *)
(***************************************************************************)
EXTENDS Naturals, Sequences, SequencesExt, FiniteSets

Named(name, unit) == [is |-> "named", name |-> name, unit |-> unit, args |-> <<>>]
Generic(base, args) == [base EXCEPT !.is = "generic", !.args = args]
Compound(what, args) == [is |-> what, name |-> <<>>, unit |-> <<>>, args |-> args]
Unknown == Compound("unknown", <<>>)

NewScope(kind, name, parent, owner) ==
    [kind |-> kind, name |-> name, parent |-> parent, owner |-> owner,
     symbols |-> <<>>, imports |-> <<>>, withs |-> <<>>]
NewSymbol(name, kind, at, scope, type) ==
    [name |-> name, kind |-> kind, at |-> at, scope |-> scope, type |-> type,
     visibility |-> "public", member |-> 0, bases |-> <<>>, overloads |-> {}]

Nothing == [n \in {} |-> 0]
EmptyTable == [scopes |-> <<>>, symbols |-> <<>>, units |-> Nothing, names |-> Nothing,
               problems |-> <<>>, refs |-> <<>>, nodes |-> Nothing]

Set(f, key, value) == [k \in DOMAIN f \cup {key} |-> IF k = key THEN value ELSE f[k]]
Get(f, key, none) == IF key \in DOMAIN f THEN f[key] ELSE none

\* for ... in: the table is there before the next node is looked at
Each(Op(_, _), t, nodes) ==
    LET RECURSIVE Rest(_, _)
        Rest(u, todo) == IF Len(u.symbols) * Len(todo) = 0 /\ todo = <<>> THEN u
                         ELSE Rest(Op(u, Head(todo)), Tail(todo))
    IN Rest(t, nodes)

AddScope(t, scope) == [t EXCEPT !.scopes = Append(@, scope)]
LookupLocal(t, s, name) ==
    SelectSeq(t.scopes[s].symbols, LAMBDA x : t.symbols[x].name = name)

\* Scope.define
AddSymbol(t, symbol) ==
    [t EXCEPT !.symbols = Append(@, symbol),
              !.scopes[symbol.scope].symbols = Append(@, Len(t.symbols) + 1)]

\* _define_symbol: routines of one name in one scope are each other's overloads
Overloadable == {"method", "function", "procedure", "constructor", "destructor"}
Overloads(t, symbol) ==
    {x \in Range(LookupLocal(t, symbol.scope, symbol.name)) :
        {t.symbols[x].kind, symbol.kind} \subseteq Overloadable}
Linked(t, new, others) ==
    [t EXCEPT !.symbols = [x \in DOMAIN @ |-> [@[x] EXCEPT !.overloads =
        IF x = new THEN others ELSE IF x \in others THEN @ \cup {new} ELSE @]]]
Define(t, symbol) == Linked(AddSymbol(t, symbol), Len(t.symbols) + 1, Overloads(t, symbol))

\* add_import: scopes are compared by what they hold
Import(t, s, imported) ==
    IF \E i \in Range(t.scopes[s].imports) : t.scopes[i] = t.scopes[imported] THEN t
    ELSE [t EXCEPT !.scopes[s].imports = Append(@, imported)]

\* Scope.resolve: what is declared here, in the with statement, outside, in
\* the units that are used
RECURSIVE FirstFound(_, _, _)
FirstFound(t, scopes, name) ==
    IF scopes = <<>> THEN <<>>
    ELSE LET found == LookupLocal(t, Head(scopes), name)
         IN IF found # <<>> THEN found ELSE FirstFound(t, Tail(scopes), name)
OrElse(found, other) == IF found # <<>> THEN found ELSE other

RECURSIVE ResolveName(_, _, _)
ResolveName(t, s, name) ==
    IF s = 0 THEN <<>>
    ELSE OrElse(LookupLocal(t, s, name),
         OrElse(FirstFound(t, t.scopes[s].withs, name),
         OrElse(ResolveName(t, t.scopes[s].parent, name),
                FirstFound(t, t.scopes[s].imports, name))))
First(found) == IF found = <<>> THEN 0 ELSE Head(found)

\* SymbolIndex
LookupUnit(t, name) == Get(t.units, name, 0)
RegisterUnit(t, name, s) == [t EXCEPT !.units = Set(@, name, s)]
Lookup(t, name) == Get(t.names, name, <<>>)
AddName(t, x) == [t EXCEPT !.names = Set(@, t.symbols[x].name, Append(Lookup(t, t.symbols[x].name), x))]
IndexUnit(t, name, s) == Each(AddName, RegisterUnit(t, name, s), t.scopes[s].symbols)
ResolveQualified(t, name) ==
    IF Len(name) < 2 THEN Lookup(t, name)
    ELSE IF LookupUnit(t, Front(name)) = 0 THEN <<>>
    ELSE LookupLocal(t, LookupUnit(t, Front(name)), <<Last(name)>>)

\* _unit_scope_for_symbol
RECURSIVE UnitScope(_, _)
UnitScope(t, s) == IF t.scopes[s].kind = "unit" THEN s ELSE UnitScope(t, t.scopes[s].parent)
RECURSIVE Under(_, _, _)
Under(t, s, outer) == s = outer \/ (s # 0 /\ Under(t, t.scopes[s].parent, outer))
================================================================================
