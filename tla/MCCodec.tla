------------------------------- MODULE MCCodec -------------------------------
(***************************************************************************)
(* Inputs of Codec for TLC.                                                *)
(***************************************************************************)
EXTENDS Codec

Of(kind, S) == {[kind |-> kind, v |-> x] : x \in S}

\* Both sides of every boundary.
VarInts ==
    {0, 1, Base - 4, Base - 3, Base - 2, Base - 1, Base, Pow[U16] - 1, Pow[U16],
     Pow[U32] - 1, Pow[U32], Pow[U64] - 1}

Ramp(n) == [i \in 1..n |-> i % Base]
ScriptLens == {0, Base - 4, Base - 3}
TxIns == {[prevout |-> [hash |-> Ramp(HashLen), n |-> Pow[U32] - 1], script |-> Ramp(l), n |-> 7] :
             l \in ScriptLens}
TxOuts == {[value |-> Pow[U32] + 1, scriptPubKey |-> Ramp(l)] : l \in ScriptLens}
Transactions ==
    {[version |-> 1, in |-> i, out |-> o, lockTime |-> Base] :
        i \in SeqOf(TxIns, 2), o \in SeqOf(TxOuts, 2)}
SmallTx(k) == [version |-> k, in |-> <<>>, out |-> <<>>, lockTime |-> 0]
BlockOf(tx) ==
    [version |-> 2, prevBlockHash |-> Ramp(HashLen), merkleRootHash |-> Reverse(Ramp(HashLen)),
     time |-> Base, bits |-> 3, nonce |-> Pow[U32] - 1, tx |-> tx]
Blocks ==
    {BlockOf(<<t>>) : t \in Transactions} \cup
    {BlockOf([i \in 1..n |-> SmallTx(i)]) : n \in {0, 2, Base - 4, Base - 3, Base - 2}}

\* Templates of up to 8 transactions besides the coinbase, all different or all
\* the same, and two submissions.
Templates ==
    {[version |-> 2, previousblockhash |-> BinToASCII(Ramp(HashLen)), curtime |-> 5,
      bits |-> BinToASCII(Ramp(U32)), coinbasevalue |-> 50,
      transactions |-> [i \in 1..n |-> BinToASCII(WriteTransaction(SmallTx(IF same THEN 1 ELSE i)))]] :
        n \in 0..8, same \in BOOLEAN}
Submissions ==
    {[extranonce2 |-> e, ntime |-> Ramp(U32), nonce |-> n] :
        e \in {Zeros(U32), Ramp(U32)}, n \in {Ramp(U32), Reverse(Ramp(U32))}}
SharesOf ==
    {[template |-> t, height |-> h, pubkey |-> Ramp(p), extranonce |-> e, share |-> s] :
        t \in Templates, h \in {1, Base + 2}, p \in {2, Base - 3}, e \in {0, Base + 1},
        s \in Submissions}

Words4 == {Zeros(U32), Ramp(U32), Reverse(Ramp(U32))}
AllSubmissions == [extranonce2 : Words4, ntime : Words4, nonce : Words4]
OneTemplate == CHOOSE t \in Templates : t.transactions = <<>>
Pairs ==
    [template : {OneTemplate}, one : AllSubmissions, other : AllSubmissions]

\* Difficulties on both sides of the one of the block.
Targets ==
    {[bits |-> n * Pow[U32 - 1] + m, diff |-> d] :
        n \in (U32 - 1)..(U32 + 1), m \in {1, 5, Base, Base + 3}, d \in 1..40}

\* Strings with and without marks and apostrophes; a mark before a brace ends
\* the string and then the object.
Letter(n) == <<Token("letter", n)>>
Marked == <<Mark>> \o Letter(1)
Strings ==
    {<<>>, Letter(1), <<Tok("backslash")>>, Append(Letter(1), Tok("apostrophe")), Marked,
     <<Mark, Tok("}")>>, <<Mark, Tok("}"), Mark>>, <<Mark, Tok(","), Mark>>}

\* From 0.5 to 1000, printed with two digits: exact and rounded, whole and not,
\* with an exponent and without.
SomeDoubles ==
    {5, 10, 15, 120, 123, 125, 130, 135, 140, 990, 995, 1000, 1200, 1250, 1300, 10000}
TensTo4 == {1, 10, 100, 1000, 10000}

SomeLeaves ==
    {New("null"), Leaf("bool", 1), Leaf("int", 1)} \cup {Leaf("double", v) : v \in SomeDoubles}
        \cup {Str(c) : c \in Strings}
Few == {New("null"), Leaf("int", 1), Str(Letter(1))}
Array(s) == FoldLeft(Add, New("array"), s)
Object(s) == FoldLeft(LAMBDA n, p : Set(n, p[1], p[2]), New("object"), s)
Flat(S, K) ==
    {Array(s) : s \in SeqOf(S, 2)} \cup {Object(s) : s \in SeqOf(K \X S, 2)}
Nested ==
    LET Deep == Object(<<<<Letter(2), Object(<<<<Letter(1), Leaf("int", 2)>>>>)>>,
                         <<Letter(1), New("null")>>>>)
    IN  Flat(Few \cup {Array(<<>>), Array(<<New("null"), Object(<<>>)>>), Deep}, {Letter(1), Letter(2)})
Values == Flat(SomeLeaves, {Letter(1), Marked}) \cup Nested

AllInputs ==
    Of("varint", VarInts) \cup Of("block", Blocks) \cup Of("share", SharesOf)
        \cup Of("pair", Pairs) \cup Of("bits", Targets) \cup Of("json", Values)

=============================================================================
