--------------------------------- MODULE JSON ---------------------------------
(***************************************************************************)
(* JSON values, their text and the reader.  A node has the members of the  *)
(* class.  A text is a sequence of symbols: punctuation, letters, and      *)
(* whole numbers and literals; the content of a string and the name of a   *)
(* member are made of the same symbols.  Spaces are left out.  The reader  *)
(* is a grammar whose semantic actions work on two stacks, the open nodes  *)
(* and the names of the members being read.                                *)
(*                                                                         *)
(* A double is a whole number of the smallest units that are printed, the  *)
(* sign left out; One of them make 1.0.                                    *)
(***************************************************************************)
EXTENDS Integers, Sequences, SequencesExt

CONSTANTS
    Nesting,        \* how deep arrays and objects are nested
    Doubles,        \* the doubles
    One,            \* the units in 1.0, a power of ten
    Limit,          \* the numbers that the significant digits of a stream can print
    Units,          \* powers of ten
    ExponentRead    \* whether the library reads a double with an exponent and no point

ASSUME NestingAssumption == Nesting \in Nat

-----------------------------------------------------------------------------
(***************************************************************************)
(* Text and values.                                                        *)
(***************************************************************************)
Token(t, v) == [t |-> t, v |-> v]
Tok(t) == Token(t, 0)

Atoms == {"null", "bool", "int", "double"}
Kinds == Atoms \cup {"{", "}", "[", "]", ":", ",", "mark", "apostrophe", "backslash", "letter"}
Symbol == [t : Kinds, v : Int]
Mark == Tok("mark")     \* of quotation

\* vec is _vec of an array, and the values of _map of an object in the order of
\* mapOrder; _val is val, or str for a string.
New(type) == [type |-> type, val |-> 0, str |-> <<>>, mapOrder |-> <<>>, vec |-> <<>>]
Leaf(type, v) == [New(type) EXCEPT !.val = v]
Str(c) == [New("string") EXCEPT !.str = c]

\* Add and Set of a node that has the type, or none yet.
Add(node, x) == [node EXCEPT !.type = "array", !.vec = Append(@, x)]

Replaced(node, key, x) ==
    [i \in DOMAIN node.vec |-> IF node.mapOrder[i] = key THEN x ELSE node.vec[i]]
Has(node, key) == \E i \in DOMAIN node.mapOrder : node.mapOrder[i] = key

SetFront(node, key, x) ==
    IF Has(node, key)
    THEN [node EXCEPT !.type = "object", !.vec = Replaced(node, key, x)]
    ELSE [node EXCEPT !.type = "object", !.mapOrder = <<key>> \o @, !.vec = <<x>> \o @]
Set(node, key, x) ==
    IF Has(node, key)
    THEN [node EXCEPT !.type = "object", !.vec = Replaced(node, key, x)]
    ELSE [node EXCEPT !.type = "object", !.mapOrder = Append(@, key), !.vec = Append(@, x)]

\* The nodes over leaves L and names K, nested as deep as Nesting.
LeavesOf(S, D) ==
    [type : {"null"}, val : {0}, str : {<<>>}, mapOrder : {<<>>}, vec : {<<>>}]
    \cup [type : {"bool"}, val : {0, 1}, str : {<<>>}, mapOrder : {<<>>}, vec : {<<>>}]
    \cup [type : {"int"}, val : Int, str : {<<>>}, mapOrder : {<<>>}, vec : {<<>>}]
    \cup [type : {"double"}, val : D, str : {<<>>}, mapOrder : {<<>>}, vec : {<<>>}]
    \cup [type : {"string"}, val : {0}, str : S, mapOrder : {<<>>}, vec : {<<>>}]
ListsOf(S, K) ==
    [type : {"array"}, val : {0}, str : {<<>>}, mapOrder : {<<>>}, vec : Seq(S)]
    \cup {n \in [type : {"object"}, val : {0}, str : {<<>>}, mapOrder : Seq(K), vec : Seq(S)] :
             Len(n.mapOrder) = Len(n.vec) /\ IsInjective(n.mapOrder)}
NodesOf(L, K) ==
    LET nodes[k \in 0..Nesting] == IF k = 0 THEN L ELSE L \cup ListsOf(nodes[k - 1], K) IN nodes

Leaves == LeavesOf(Seq(Symbol), Doubles)
Nodes == NodesOf(Leaves, Seq(Symbol))

-----------------------------------------------------------------------------
(***************************************************************************)
(* Writing.                                                                *)
(***************************************************************************)
Quoted(c) == <<Mark>> \o c \o <<Mark>>

\* A backslash is put before quotation marks and apostrophes.
EscapeString(c) ==
    LET Escaped(x) == IF x.t \in {"mark", "apostrophe"} THEN <<Tok("backslash"), x>> ELSE <<x>>
        text[i \in 0..Len(c)] == IF i = 0 THEN <<>> ELSE text[i - 1] \o Escaped(c[i])
    IN  text[Len(c)]

\* A stream keeps the significant digits, which the unit of the last one tells,
\* and rounds to the nearest number, a tie to the even one.
UnitOf(u, v) == v < Limit * u /\ \A w \in Units : v < Limit * w => u <= w
Unit(v) == CHOOSE u \in Units : UnitOf(u, v)
Rounded(v) ==
    LET u == Unit(v)
        q == v \div u
        rest == 2 * (v % u)
    IN  IF rest > u \/ (rest = u /\ q % 2 = 1) THEN u * (q + 1) ELSE u * q

\* From Limit on there is an exponent, with a point if there is more than one
\* digit; below it a whole number has no point, and is an integer.
OneDigit(v) == \E d \in 1..9, u \in Units : v = d * u
Whole(v) == v < Limit * One /\ v % One = 0
Exponent(v) == v >= Limit * One /\ OneDigit(v)

WriteDouble(v) ==
    LET r == Rounded(v) IN
    CASE Whole(r) -> <<Token("int", r \div One)>>
      [] Exponent(r) /\ ~ExponentRead -> <<Token("int", 1), Tok("letter")>>
      [] OTHER -> <<Token("double", r)>>

ASSUME DoubleAssumption ==
    /\ One \in Nat \ {0} /\ Limit \in Nat \ {0} /\ Units \subseteq Nat \ {0} /\ Doubles \subseteq Nat
    /\ \A v \in Doubles : Rounded(v) \in Doubles /\ \E u \in Units : UnitOf(u, v)

WriteLeaf(node) ==
    CASE node.type = "string" -> Quoted(EscapeString(node.str))
      [] node.type = "double" -> WriteDouble(node.val)
      [] OTHER -> <<Token(node.type, node.val)>>

\* write is the text of each member.  Names are not escaped.
WriteList(write, node) ==
    LET Comma(i) == IF i > 1 THEN <<Tok(",")>> ELSE <<>>
        Name(i) ==
            IF node.type = "object" THEN Quoted(node.mapOrder[i]) \o <<Tok(":")>> ELSE <<>>
        text[i \in 0..Len(node.vec)] ==
            IF i = 0 THEN <<>> ELSE text[i - 1] \o Comma(i) \o Name(i) \o write[node.vec[i]]
        body == text[Len(node.vec)]
    IN  IF node.type = "object"
        THEN <<Tok("{")>> \o body \o <<Tok("}")>>
        ELSE <<Tok("[")>> \o body \o <<Tok("]")>>

WriteNode(write, node) ==
    IF node.type \in {"array", "object"} THEN WriteList(write, node) ELSE WriteLeaf(node)
Write[k \in 0..Nesting] ==
    IF k = 0 THEN [node \in Leaves |-> WriteLeaf(node)]
    ELSE [node \in Nodes[k] |-> WriteNode(Write[k - 1], node)]

\* An array at the top is wrapped in braces, which is no JSON.
JSONToString(node) ==
    LET text == Write[Nesting][node]
    IN  IF text[1].t = "[" THEN <<Tok("{")>> \o text \o <<Tok("}")>> ELSE text

-----------------------------------------------------------------------------
(***************************************************************************)
(* The semantic actions.  root is the node of the caller, which is on the  *)
(* stack while it is open; next is what the grammar expects.               *)
(***************************************************************************)
\* The name of a member is the last one read.
SetData(s, x) ==
    LET top == Last(s.stack) IN
    IF top.type = "object"
    THEN [s EXCEPT !.stack = Append(Front(@), Set(top, Last(s.names), x)), !.names = Front(@),
                   !.next = "more"]
    ELSE [s EXCEPT !.stack = Append(Front(@), Add(top, x)), !.next = "more"]

\* The first bracket types the caller's node, every other opens a new one.
Begin(s, type, next) ==
    LET around == IF Last(s.stack).type = "null" THEN Front(s.stack) ELSE s.stack
    IN  [s EXCEPT !.stack = Append(around, New(type)), !.next = next]

\* The closed node is given to the one around it.
End(s) ==
    LET node == Last(s.stack)
        rest == [s EXCEPT !.stack = Front(@)]
    IN  IF rest.stack = <<>> THEN [rest EXCEPT !.root = node, !.next = "end"] ELSE SetData(rest, node)

ObjectKey(s, key) == [s EXCEPT !.names = Append(@, key), !.next = "colon"]

-----------------------------------------------------------------------------
(***************************************************************************)
(* The grammar, a token at a time: each alternative begins with a token of *)
(* its own.  A failure is final; after the end of the object or array the  *)
(* rest is not looked at.                                                  *)
(***************************************************************************)
Step(s, x) ==
    LET open == Last(s.stack).type IN
    CASE x.t = "{" /\ s.next \in {"json", "value", "elements"} -> Begin(s, "object", "members")
      [] x.t = "[" /\ s.next \in {"json", "value", "elements"} -> Begin(s, "array", "elements")
      [] x.t \in Atoms /\ s.next \in {"value", "elements"} -> SetData(s, Leaf(x.t, x.v))
      [] x.t = "string" /\ s.next \in {"value", "elements"} -> SetData(s, Str(x.v))
      [] x.t = "string" /\ s.next \in {"members", "pair"} -> ObjectKey(s, x.v)
      [] x.t = ":" /\ s.next = "colon" -> [s EXCEPT !.next = "value"]
      [] x.t = "," /\ s.next = "more" -> [s EXCEPT !.next = IF open = "object" THEN "pair" ELSE "value"]
      [] x.t = "}" /\ s.next \in {"members", "more"} /\ open = "object" -> End(s)
      [] x.t = "]" /\ s.next \in {"elements", "more"} /\ open = "array" -> End(s)
      [] OTHER -> [s EXCEPT !.next = "fail"]

\* A string ends at the next quotation mark, whatever is before the mark; lexeme
\* is what is read of it, with the first mark, and empty outside a string.
ReadSymbol(s, x) ==
    LET inside == s.lexeme # <<>> IN
    IF s.next \in {"end", "fail"} THEN s
    ELSE CASE inside /\ x = Mark -> Step([s EXCEPT !.lexeme = <<>>], Token("string", Tail(s.lexeme)))
           [] inside /\ x # Mark -> [s EXCEPT !.lexeme = Append(@, x)]
           [] ~inside /\ x = Mark -> [s EXCEPT !.lexeme = <<Mark>>]
           [] ~inside /\ x # Mark -> Step(s, x)

Parse(s, t) ==
    LET run[i \in 0..Len(t)] == IF i = 0 THEN s ELSE ReadSymbol(run[i - 1], t[i]) IN run[Len(t)]

FromString(t) ==
    Parse([stack |-> <<New("null")>>, names |-> <<>>, root |-> New("null"), next |-> "json",
           lexeme |-> <<>>], t)

ParsedOpen(s) == s.next \in {"more", "end"}
Parsed(s) == s.next = "end"

=============================================================================
