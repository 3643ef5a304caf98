---------------------------- MODULE SemanticBuilder ----------------------------
(***************************************************************************)
(* Declarations and references of a syntax tree                            *)
(* (src/delphi_lsp/semantic_builder.py).  A node is [typ, name, tag, pos,  *)
(* kids]: tag is its type, kind or visibility attribute and pos tells the  *)
(* nodes of a file apart.  Modifiers, documentation, bounds and constraint *)
(* texts are left out.                                                     *)
(***************************************************************************)
EXTENDS SymbolTable

NoNode == [typ |-> "none", name |-> <<>>, tag |-> "", pos |-> 0, kids |-> <<>>]
Kids(node, typs) == SelectSeq(node.kids, LAMBDA k : k.typ \in typs)
Find(node, typ) == LET found == Kids(node, {typ}) IN IF found = <<>> THEN NoNode ELSE Head(found)

\* ---- type references: _type_from_node, _infer_type_ref_and_kind
RECURSIVE TypeFrom(_)
TypesOf(node) == LET kids == Kids(node, {"type"}) IN [i \in DOMAIN kids |-> TypeFrom(kids[i])]
ParameterTypes(node) ==
    LET parameters == Kids(Find(node, "parameters"), {"parameter"})
    IN [i \in DOMAIN parameters |-> TypeFrom(Find(parameters[i], "type"))]
ReturnType(node) == TypeFrom(Find(Find(node, "returntype"), "type"))
NamedTypeRef(name) == IF Len(name) > 1 THEN Named(<<Last(name)>>, Front(name)) ELSE Named(name, <<>>)
TypeFrom(node) ==
    CASE node.tag \in {"pointer", "array", "set", "class of", "reference", "file"} ->
             Compound(node.tag, <<TypeFrom(Find(node, "type"))>>)
      [] node.tag \in {"packed", "distinct"} -> TypeFrom(Find(node, "type"))
      [] node.tag \in {"procedure", "function"} ->
             Compound("proc", Append(ParameterTypes(node), ReturnType(node)))
      [] node.name = <<>> -> Unknown
      [] OTHER -> LET args == TypesOf(Find(node, "typeargs"))
                  IN IF Find(node, "typeargs") = NoNode THEN NamedTypeRef(node.name)
                     ELSE Generic(NamedTypeRef(node.name), args)

Structured == {"class", "record", "interface", "enum"}
TypeKind(typeNode) == IF typeNode.tag \in Structured THEN typeNode.tag ELSE "type"
DeclaredType(name, typeNode) ==
    IF typeNode.tag \in Structured THEN Compound(typeNode.tag, <<>>)
    ELSE IF typeNode.tag \in {"set", "array", "distinct"} THEN TypeFrom(typeNode)
    ELSE IF typeNode.name # <<>> THEN Named(typeNode.name, <<>>)
    ELSE Unknown

\* ---- declarations
Problem(t, what, file, node) == [t EXCEPT !.problems = Append(@, [what |-> what, name |-> node.name, at |-> <<file, node.pos>>])]

\* _handle_uses
UseUnit(t, file, s, node) ==
    IF LookupUnit(t, node.name) # 0 THEN Import(t, s, LookupUnit(t, node.name))
    ELSE Import(AddScope(Problem(t, "unit", file, node), NewScope("unit", node.name, 0, 0)),
                s, Len(t.scopes) + 1)

SymbolOf(file, s, node, kind) ==
    NewSymbol(node.name, kind, <<file, node.pos>>, s, TypeFrom(Find(node, "type")))

\* a symbol for every named child of one of these types
DefineAll(t, file, s, nodes, kind, visibility) ==
    Each(LAMBDA u, node : IF node.name = <<>> THEN u
                 ELSE Define(u, [SymbolOf(file, s, node, kind) EXCEPT !.visibility = visibility]),
             t, nodes)

\* the symbol of a type or a routine with the scope of its members
WithMembers(t, file, s, node, symbol, scopeKind) ==
    [Define(AddScope(t, NewScope(scopeKind, node.name, s, Len(t.symbols) + 1)),
            [symbol EXCEPT !.member = Len(t.scopes) + 1])
        EXCEPT !.nodes = Set(@, <<file, node.pos>>, Len(t.scopes) + 1)]

Visibilities == {"private", "protected", "public", "published", "strict private", "strict protected"}

RECURSIVE Declare(_, _, _, _, _)
DeclareAll(t, file, s, nodes, visibility) ==
    Each(LAMBDA u, node : Declare(u, file, s, node, visibility), t, nodes)

\* _visit_type_members: a section sets the visibility of what follows it
VisibilityAt(typeNode, i) ==
    LET sections == {j \in 1 .. i : typeNode.kids[j].typ \in Visibilities}
    IN IF sections = {} THEN "public" ELSE typeNode.kids[CHOOSE j \in sections : \A k \in sections : k <= j].typ
VisitMember(t, file, s, typeNode, i) ==
    IF typeNode.kids[i].typ \in Visibilities
    THEN DeclareAll(t, file, s, typeNode.kids[i].kids, VisibilityAt(typeNode, i))
    ELSE Declare(t, file, s, typeNode.kids[i], VisibilityAt(typeNode, i))
VisitMembers(t, file, s, typeNode) ==
    Each(LAMBDA u, i : VisitMember(u, file, s, typeNode, i), t, [i \in DOMAIN typeNode.kids |-> i])

\* _handle_type_decl: enumerated values are declared beside their type
TypeSymbol(file, s, node, typeNode) ==
    [NewSymbol(node.name, TypeKind(typeNode), <<file, node.pos>>, s, DeclaredType(node.name, typeNode))
        EXCEPT !.bases = TypesOf(typeNode)]
EnumValues(node, typeNode) ==
    LET values == Kids(typeNode, {"enum"})
    IN [i \in DOMAIN values |-> [values[i] EXCEPT !.kids = <<[NoNode EXCEPT !.typ = "type", !.name = node.name]>>]]
DeclareMembers(t, file, s, node, typeNode, inner) ==
    LET params == DefineAll(t, file, inner, Kids(Find(node, "typeparams"), {"typeparam"}), "type_parameter", "public")
        values == IF typeNode.tag # "enum" THEN params
                  ELSE DefineAll(params, file, s, EnumValues(node, typeNode), "enum_value", "public")
    IN VisitMembers(values, file, inner, typeNode)
DeclareType(t, file, s, node, typeNode) ==
    IF node.name = <<>> THEN t
    ELSE DeclareMembers(WithMembers(t, file, s, node, TypeSymbol(file, s, node, typeNode), "type"),
                        file, s, node, typeNode, Len(t.scopes) + 1)

\* _handle_method
MethodKind(node) ==
    IF node.tag \in {"function", "procedure", "constructor", "destructor"} THEN node.tag ELSE "method"
MethodSymbol(file, s, node, visibility) ==
    [NewSymbol(node.name, MethodKind(node), <<file, node.pos>>, s,
               Compound("proc", Append(ParameterTypes(node), ReturnType(node))))
        EXCEPT !.visibility = visibility]
Signature == {"parameters", "returntype", "typeparams"}
DeclareRoutine(t, file, node, inner, visibility) ==
    LET params == DefineAll(t, file, inner, Kids(Find(node, "parameters"), {"parameter"}), "parameter", "public")
        types == DefineAll(params, file, inner, Kids(Find(node, "typeparams"), {"typeparam"}), "type_parameter", "public")
    IN DeclareAll(types, file, inner, SelectSeq(node.kids, LAMBDA k : k.typ \notin Signature), visibility)
DeclareMethod(t, file, s, node, visibility) ==
    IF node.name = <<>> THEN t
    ELSE DeclareRoutine(WithMembers(t, file, s, node, MethodSymbol(file, s, node, visibility), "routine"),
                        file, node, Len(t.scopes) + 1, visibility)

\* _declare_symbols
Singles == {"variable", "property", "field", "label"}
Declare(t, file, s, node, visibility) ==
    CASE node.typ = "uses" ->
             Each(LAMBDA u, unit : IF unit.name = <<>> THEN u ELSE UseUnit(u, file, s, unit),
                      t, Kids(node, {"unit"}))
      [] node.typ = "typesection" ->
             Each(LAMBDA u, decl : DeclareType(u, file, s, decl, Find(decl, "type")),
                      t, Kids(node, {"typedecl"}))
      [] node.typ = "variables" -> DefineAll(t, file, s, Kids(node, {"variable"}), "variable", visibility)
      [] node.typ = "constants" -> DefineAll(t, file, s, Kids(node, {"constant"}), "constant", "public")
      [] node.typ \in Singles -> DefineAll(t, file, s, <<node>>, node.typ, visibility)
      [] node.typ = "method" -> DeclareMethod(t, file, s, node, visibility)
      [] OTHER -> DeclareAll(t, file, s, node.kids, visibility)

\* declare: the unit is a symbol of its own scope, and is registered again
UnitName(root) == IF root.name = <<>> THEN <<"unit">> ELSE root.name
DeclareUnit(t, file, root, s) ==
    LET owned == [Define(t, NewSymbol(UnitName(root), "unit", <<file, root.pos>>, s, Unknown))
                     EXCEPT !.scopes[s].owner = Len(t.symbols) + 1]
    IN IndexUnit(DeclareAll(owned, file, s, root.kids, "public"), UnitName(root), s)

\* ---- types are resolved before references
\* _normalize_named_type
InUnit(t, s, type, found) ==
    LET unit == t.scopes[UnitScope(t, t.symbols[found].scope)].name
    IN IF unit = t.scopes[s].name THEN type ELSE [type EXCEPT !.unit = unit]
Normalize(t, s, type, found) ==
    IF type.unit # <<>> THEN type
    ELSE IF Len(type.name) > 1 THEN [type EXCEPT !.name = <<Last(@)>>, !.unit = Front(type.name)]
    ELSE IF found = <<>> THEN type ELSE InUnit(t, s, type, Head(found))
RECURSIVE ResolveType(_, _, _)
ResolveType(t, s, type) ==
    IF type.is \in {"unknown", "proc"} \cup Structured THEN type
    ELSE LET args == [i \in DOMAIN type.args |-> ResolveType(t, s, type.args[i])]
         IN [(IF type.is \in {"named", "generic"} THEN Normalize(t, s, type, ResolveName(t, s, type.name))
              ELSE type) EXCEPT !.args = args]
ResolveTypes(t, unit) ==
    [t EXCEPT !.symbols = [x \in DOMAIN @ |->
        IF Under(t, @[x].scope, unit) THEN [@[x] EXCEPT !.type = ResolveType(t, t.symbols[x].scope, @)] ELSE @[x]]]

\* ---- members
\* _type_symbol_from_ref
TypeOf(t, s, type) ==
    IF type.is \notin {"named", "generic"} THEN 0
    ELSE IF LookupUnit(t, type.unit) # 0
         THEN First(LookupLocal(t, LookupUnit(t, type.unit), type.name))
    ELSE First(OrElse(IF Len(type.name) > 1 THEN ResolveQualified(t, type.name) ELSE <<>>,
                      ResolveName(t, s, type.name)))

\* _type_owner_for_symbol
TypeOwner(t, s, x) ==
    IF t.symbols[x].member # 0 /\ t.symbols[x].kind \in {"type"} \cup Structured THEN x
    ELSE IF t.scopes[t.symbols[x].scope].kind = "type" THEN t.scopes[t.symbols[x].scope].owner
    ELSE TypeOf(t, s, t.symbols[x].type)

\* _iter_type_member_scopes: a type and its bases, each once
Bases(t, s, x) ==
    SelectSeq([i \in DOMAIN t.symbols[x].bases |-> TypeOf(t, s, t.symbols[x].bases[i])],
              LAMBDA base : base # 0)
\* Mutant: the bases of a base come before the type's other bases.
DepthFirst(queue, bases) == bases \o queue
Enqueue(queue, bases) == queue \o bases
RECURSIVE Lineage(_, _, _, _)
Lineage(t, s, queue, seen) ==
    IF queue = <<>> THEN seen
    ELSE IF Contains(seen, Head(queue)) THEN Lineage(t, s, Tail(queue), seen)
    ELSE Lineage(t, s, Enqueue(Tail(queue), Bases(t, s, Head(queue))), Append(seen, Head(queue)))
ScopesOfTypes(t, types) ==
    SelectSeq([i \in DOMAIN types |-> t.symbols[types[i]].member], LAMBDA m : m # 0)
MembersOfType(t, s, owner) == IF owner = 0 THEN <<>> ELSE ScopesOfTypes(t, Lineage(t, s, <<owner>>, <<>>))
MemberScopes(t, s, x) == MembersOfType(t, s, TypeOwner(t, s, x))

\* _resolve_member_symbol
MemberIn(t, scopes, name) == First(FirstFound(t, scopes, name))

\* _resolve_scope_chain and _resolve_qualified_reference
Chain(t, s, x, names) ==
    FoldLeft(LAMBDA y, name : IF y = 0 THEN 0 ELSE MemberIn(t, MemberScopes(t, s, y), <<name>>), x, names)
InScope(t, s, found, name) == Chain(t, s, First(found), Tail(name))
UnitPrefixes(t, name) == {n \in 1 .. Len(name) - 1 : LookupUnit(t, SubSeq(name, 1, n)) # 0}
ViaUnit(t, s, name, n) ==
    InScope(t, s, LookupLocal(t, LookupUnit(t, SubSeq(name, 1, n)), <<name[n + 1]>>), SubSeq(name, n + 1, Len(name)))
ViaLongestPrefix(t, s, name, prefixes) ==
    IF prefixes = {} THEN 0 ELSE ViaUnit(t, s, name, CHOOSE n \in prefixes : \A m \in prefixes : m <= n)
Else(x, other) == IF x # 0 THEN x ELSE other
ResolveReference(t, s, name) ==
    IF Len(name) = 1 THEN First(ResolveName(t, s, name))
    ELSE Else(ViaLongestPrefix(t, s, name, UnitPrefixes(t, name)),
         Else(InScope(t, s, ResolveName(t, s, <<Head(name)>>), name),
              First(ResolveQualified(t, name))))

\* ---- references
BuiltinTypes == {"integer", "string", "tobject"}

\* _expr_name
RECURSIVE ExprName(_)
ExprName(node) ==
    IF node.typ = "identifier" THEN node.name
    ELSE IF node.typ = "dot" /\ Len(node.kids) = 2 THEN ExprName(node.kids[1]) \o ExprName(node.kids[2])
    ELSE IF node.typ \in {"call", "indexed"} /\ node.kids # <<>> THEN ExprName(node.kids[1])
    ELSE <<>>

\* _add_reference
Reference(name, kind, at, s, x) == [name |-> name, kind |-> kind, at |-> at, scope |-> s, resolved |-> x]
Recorded(t, file, node, reference) ==
    [(IF reference.resolved = 0 /\ reference.kind = "type" /\ Last(reference.name) \notin BuiltinTypes
      THEN Problem(t, "type", file, node) ELSE t) EXCEPT !.refs = Append(@, reference)]
AddReference(t, file, s, node, name, kind) ==
    IF name = <<>> THEN t
    ELSE Recorded(t, file, node, Reference(name, kind, <<file, node.pos>>, s, ResolveReference(t, s, name)))

\* _record_type_reference
RECURSIVE TypeRefs(_, _, _, _)
TypeRefs(t, file, s, nodes) ==
    Each(LAMBDA u, node : IF node.name = <<>> THEN u
                 ELSE TypeRefs(AddReference(u, file, s, node, node.name, "type"), file, s,
                               Kids(Find(node, "typeargs"), {"type"})), t, nodes)
Constraints(node) ==
    FlattenSeq([i \in DOMAIN Kids(Find(node, "typeparams"), {"typeparam"}) |->
        Kids(Find(Kids(Find(node, "typeparams"), {"typeparam"})[i], "constraints"), {"type"})])

\* _collect_expr_references
RECURSIVE ExprRefs(_, _, _, _)
ExprsRefs(t, file, s, nodes) == Each(LAMBDA u, node : ExprRefs(u, file, s, node), t, nodes)
ExprRefs(t, file, s, node) ==
    IF node.typ = "call" /\ node.kids # <<>>
    THEN ExprsRefs(AddReference(t, file, s, Head(node.kids), ExprName(Head(node.kids)), "call"),
                   file, s, Tail(node.kids))
    ELSE IF node.typ \in {"dot", "identifier"} THEN AddReference(t, file, s, node, ExprName(node), "value")
    ELSE ExprsRefs(t, file, s, node.kids)

RECURSIVE Refs(_, _, _, _)
RefsAll(t, file, s, nodes) == Each(LAMBDA u, node : Refs(u, file, s, node), t, nodes)
ScopeOfNode(t, file, node, s) == Get(t.nodes, <<file, node.pos>>, s)

\* the type and the initial value of a declaration
TypedRefs(t, file, s, node) ==
    ExprRefs(TypeRefs(t, file, s, <<Find(node, "type")>>), file, s, Find(node, "value"))
EachTyped(t, file, s, nodes) == Each(LAMBDA u, node : TypedRefs(u, file, s, node), t, nodes)

\* _collect_type_decl_references
MemberNodes(typeNode) ==
    FlattenSeq([i \in DOMAIN typeNode.kids |->
        IF typeNode.kids[i].typ \in Visibilities THEN typeNode.kids[i].kids ELSE <<typeNode.kids[i]>>])
TypeDeclRefs(t, file, s, node, typeNode) ==
    RefsAll(TypeRefs(TypeRefs(t, file, s, Constraints(node)), file, s, Kids(typeNode, {"type"})),
            file, ScopeOfNode(t, file, node, s), MemberNodes(typeNode))

\* _collect_method_references
MethodRefs(t, file, s, node) ==
    RefsAll(TypeRefs(TypeRefs(EachTyped(t, file, s, Kids(Find(node, "parameters"), {"parameter"})),
                              file, s, Constraints(node)),
                     file, s, <<Find(Find(node, "returntype"), "type")>>),
            file, s, SelectSeq(node.kids, LAMBDA k : k.typ \notin Signature))

\* _collect_property_references
PropertyTypes(node) ==
    LET parameters == Kids(Find(node, "parameters"), {"parameter"})
    IN <<Find(node, "type")>> \o [i \in DOMAIN parameters |-> Find(parameters[i], "type")]
PropertyRefs(t, file, s, node) ==
    ExprsRefs(TypeRefs(t, file, s, PropertyTypes(node)),
              file, s, Kids(node, {"read", "write", "implements", "add", "remove", "stored"}))

\* _collect_with_references
WithTargets(t, s, exprs) ==
    FlattenSeq([i \in DOMAIN exprs |->
        LET x == IF ExprName(exprs[i]) = <<>> THEN 0 ELSE ResolveReference(t, s, ExprName(exprs[i]))
        IN IF x = 0 THEN <<>> ELSE MemberScopes(t, s, x)])
Distinct(seq) == FoldLeft(LAMBDA acc, x : IF Contains(acc, x) THEN acc ELSE Append(acc, x), <<>>, seq)
InWith(t, file, s, targets, nodes) ==
    IF targets = <<>> THEN RefsAll(t, file, s, nodes)
    ELSE RefsAll(AddScope(t, [NewScope("with", <<"with">>, s, 0) EXCEPT !.withs = Distinct(targets)]),
                 file, Len(t.scopes) + 1, nodes)
WithRefs(t, file, s, node, exprs) ==
    InWith(ExprsRefs(t, file, s, exprs), file, s, WithTargets(t, s, exprs),
           SelectSeq(node.kids, LAMBDA k : k.typ # "expressions"))

\* _collect_references_pass
Refs(t, file, s, node) ==
    CASE node.typ \in {"call", "dot", "identifier"} -> ExprRefs(t, file, s, node)
      [] node.typ = "uses" -> Each(LAMBDA u, unit : AddReference(u, file, s, unit, unit.name, "unit"),
                                       t, Kids(node, {"unit"}))
      [] node.typ = "typesection" -> Each(LAMBDA u, decl : TypeDeclRefs(u, file, s, decl, Find(decl, "type")),
                                              t, Kids(node, {"typedecl"}))
      [] node.typ = "variables" -> EachTyped(t, file, s, Kids(node, {"variable"}))
      [] node.typ = "constants" -> EachTyped(t, file, s, Kids(node, {"constant"}))
      [] node.typ = "field" -> TypeRefs(t, file, s, <<Find(node, "type")>>)
      [] node.typ = "method" -> MethodRefs(t, file, ScopeOfNode(t, file, node, s), node)
      [] node.typ = "property" -> PropertyRefs(t, file, s, node)
      [] node.typ = "with" -> WithRefs(t, file, s, node, FlattenSeq(
             [i \in DOMAIN Kids(node, {"expressions"}) |-> Kids(node, {"expressions"})[i].kids]))
      [] node.typ = "goto" -> AddReference(t, file, s, node, node.name, "label")
      [] OTHER -> RefsAll(t, file, s, node.kids)

\* resolve: problems are kept from file to file, references are not
ResolveUnit(t, file, root, s) == RefsAll(ResolveTypes([t EXCEPT !.refs = <<>>], s), file, s, root.kids)
================================================================================
