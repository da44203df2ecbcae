-------------------------------- MODULE Codec --------------------------------
(***************************************************************************)
(* The conversions of Bitcoin and JSON: every input is written and read    *)
(* back, or goes from the template to the miner and back as a share, in    *)
(* one step; the properties compare what went in with what came out.  The  *)
(* daemon and the miner are external.                                      *)
(***************************************************************************)
EXTENDS Bitcoin, JSON

CONSTANTS
    Inputs,     \* what is converted: records [kind, v]
    None        \* nothing came out yet

\* What getblocktemplate answers: text of the right length, and transactions.
Text(size) == {s \in Seq(Nat) : Len(s) = 2 * size}
IsTemplate(r) ==
    /\ r.version \in Uint(U32) /\ r.curtime \in Uint(U32) /\ r.coinbasevalue \in Uint(U64)
    /\ r.previousblockhash \in Text(HashLen) /\ r.bits \in Text(U32)
    /\ r.transactions \in Seq(Seq(Nat))
    /\ \A i \in DOMAIN r.transactions :
           ReadTransaction(Buffer(ASCIIToBin(r.transactions[i]))).val \in Transaction

\* A submission: OnMiningSubmit refuses fields of another length.
Field == {s \in Seq(Byte) : Len(s) = U32}
Submission == [extranonce2 : Field, ntime : Field, nonce : Field]

\* The target of a block is positive, its length not below that of its leading bytes.
Bits == {n \in Uint(U32) : n \div Pow[U32 - 1] >= U32 - 1 /\ n % Pow[U32 - 1] > 0}

\* Numbers fit their width, and the difficulty of a job is positive.
ASSUME InputAssumption ==
    \A x \in Inputs :
        /\ x.kind = "varint" => x.v \in Uint(U64)
        /\ x.kind = "block" => x.v \in Block
        /\ x.kind = "share" =>
               /\ IsTemplate(x.v.template) /\ x.v.height \in Nat /\ x.v.extranonce \in Uint(U32)
               /\ Append(x.v.pubkey, OP_CHECKSIG) \in List(Byte) /\ x.v.share \in Submission
        /\ x.kind = "pair" => IsTemplate(x.v.template) /\ x.v.one \in Submission /\ x.v.other \in Submission
        /\ x.kind = "json" => x.v \in Nodes[Nesting]
        /\ x.kind = "bits" => x.v.bits \in Bits /\ x.v.diff \in Nat \ {0}

VARIABLES in, out
vars == <<in, out>>

Init == in \in Inputs /\ out = None

Convert(kind, result) ==
    /\ out = None /\ in.kind = kind
    /\ out' = result
    /\ UNCHANGED in

\* A number, followed by other data.
SendVarInt == Convert("varint", ReadVarInt(Buffer(WriteVarInt(in.v) \o <<1, 2>>)))

\* SubmitBlock writes the block in hexadecimal; the daemon reads it.
SubmitBlock == Convert("block", ReadBlock(Buffer(ASCIIToBin(BinToASCII(WriteBlock(in.v))))))

\* What the miner of job message m makes of its extranonces and its header.
MinerRoot(m, extranonce, extranonce2) ==
    LET root[k \in 0..Len(m.branch)] ==
            IF k = 0 THEN SHA256D(m.coinbase1 \o extranonce \o extranonce2 \o m.coinbase2)
            ELSE SHA256D(root[k - 1] \o m.branch[k])
    IN  root[Len(m.branch)]
MinerHash(m, extranonce, s) ==
    SHA256D(Reverse(m.version)
            \o Joined([k \in 1..Words |-> Reverse(Word(m.prevhash, k))])
            \o MinerRoot(m, extranonce, s.extranonce2)
            \o Reverse(s.ntime) \o Reverse(m.bits) \o Reverse(s.nonce))

\* A template becomes a job, the job a message, the miner's answer a block.
MineShare ==
    Convert("share",
        LET s == in.v.share
            Mined(b, job) ==
                [miner |-> MinerHash(JobMessage(b, job), Bytes(in.v.extranonce, U32), s),
                 old |-> b,
                 block |-> ShareBlock(b, job, in.v.extranonce, s.extranonce2, s.ntime, s.nonce)]
            Work(b) == Mined(b, GetJob(b))
        IN  Work(TemplateBlock(in.v.template, in.v.height, in.v.pubkey)))

\* Two submissions of one job: their keys, and the blocks they stand for.
TwoShares ==
    Convert("pair",
        LET Submitted(b, s) ==
                [key |-> ShareKey(s.extranonce2, s.nonce),
                 block |-> ShareBlock(b, GetJob(b), 0, s.extranonce2, s.ntime, s.nonce)]
            Both(b) == [one |-> Submitted(b, in.v.one), other |-> Submitted(b, in.v.other)]
        IN  Both(TemplateBlock(in.v.template, 1, <<>>)))

SetTargets ==
    Convert("bits",
        LET t == TargetFromBits(in.v.bits) IN
        [target |-> t, diff |-> TargetToDiff(t), job |-> DiffToTarget(in.v.diff)])

\* The text as it was written, and with other text behind it.
SendJSON ==
    Convert("json",
        LET t == JSONToString(in.v) IN [whole |-> FromString(t), more |-> FromString(t \o t)])

Done == out # None /\ UNCHANGED vars

Next == SendVarInt \/ SubmitBlock \/ MineShare \/ TwoShares \/ SetTargets \/ SendJSON \/ Done

Spec == Init /\ [][Next]_vars

-----------------------------------------------------------------------------
(***************************************************************************)
(* Properties.                                                             *)
(***************************************************************************)
Came(kind) == out # None /\ in.kind = kind

\* The daemon reads the block that SubmitBlock wrote, every script, input,
\* output and transaction included, to the last byte; a number is read back
\* whatever its size, at each boundary of the four forms of VarInt, and the reader
\* stops right behind it.
BytesKept ==
    /\ Came("varint") => out.val = in.v /\ out.buf.pointer = Len(out.buf.vec) - 2
    /\ Came("block") => out.val = in.v /\ out.buf.pointer = Len(out.buf.vec)

\* The coinbase of the template with the extranonces in the room left for them.
CoinbaseFilled ==
    out.block.tx =
        [out.old.tx EXCEPT ![1].in[1].script =
            SubSeq(@, 1, U32) \o Bytes(in.v.extranonce, U32) \o in.v.share.extranonce2]

\* The partial rebuild gives the tree that a full build gives, and its last
\* node is the Merkle root.
MerkleRoot(hs) ==
    LET Above(l) ==
            IF Len(l) = 1 THEN l
            ELSE [i \in 1..Half(Len(l)) |->
                     SHA256D(l[2 * i - 1] \o l[IF 2 * i <= Len(l) THEN 2 * i ELSE Len(l)])]
        level[k \in 0..Len(hs)] == IF k = 0 THEN hs ELSE Above(level[k - 1])
    IN  level[Len(hs)][1]
TreeRebuilt ==
    /\ out.block.merkleTree = BuildMerkleTree(out.block.tx)
    /\ out.block.merkleRootHash =
           MerkleRoot([i \in DOMAIN out.block.tx |-> TxHash(out.block.tx[i])])

\* The block that the pool judges, and submits, is the one that the miner hashed,
\* for any number of transactions: the split of the coinbase, the Merkle branch
\* and the order of bytes agree, the coinbase is whole and the tree is that of its
\* transactions (GetJob, SendJob, OnMiningSubmit, RebuildMerkleTree).
ShareIsBlock ==
    Came("share") => out.miner = BlockHash(out.block) /\ CoinbaseFilled /\ TreeRebuilt

\* Two submissions are duplicates, by the key that Job::SubmitShare keeps,
\* exactly when their headers differ in nothing but the time: no work is counted
\* twice, and a nonce tried again at another time is refused.
KeyIsWork ==
    LET Timeless(x) == BlockHash([x.block EXCEPT !.time = 0])
    IN  Came("pair") => (out.one.key = out.other.key <=> Timeless(out.one) = Timeless(out.other))

\* A hash good enough for a block passes the test against the job's target,
\* which comes first, exactly when the job is no harder than the block
\* (OnMiningSubmit, GetJob): both divisions round the same way.
BlockIsShare == Came("bits") => (in.v.diff <= out.diff <=> out.job >= out.target)

\* Values without a quotation mark in a string or a name, and those of them that
\* the text can carry: no apostrophe in a string, and doubles of no more digits
\* than a stream keeps that are written with a point, or with an exponent that
\* the reader takes for one.
Plain == Seq(Symbol \ {Mark})
PlainNodes == NodesOf(LeavesOf(Plain, Doubles), Plain)
CarriedDoubles ==
    {v \in Doubles : v % Unit(v) = 0 /\ ~Whole(v) /\ (Exponent(v) => ExponentRead)}
CarriedStrings == Seq({x \in Symbol : x.t \notin {"mark", "apostrophe"}})
CarriedNodes == NodesOf(LeavesOf(CarriedStrings, CarriedDoubles), Plain)

\* An object is read back as it was written, members in their order, exactly
\* when all its values can be carried; an array at the top never is, nor a value
\* with a quotation mark in it, which is not refused, though, but may be read as
\* another.  A text that is read leaves no open node and no name behind, whatever
\* it is, and what follows it changes nothing (phrase_parse does not ask for the end).
JSONKept ==
    Came("json") =>
        /\ Parsed(out.whole) /\ out.whole.root = in.v
               <=> in.v \in CarriedNodes[Nesting] /\ in.v.type = "object"
        /\ Parsed(out.whole) =>
               out.whole.stack = <<>> /\ out.whole.names = <<>> /\ out.more = out.whole

\* A text that is cut off anywhere is refused, unless a string or a name has a
\* quotation mark: a part of an answer is never taken for the answer
\* (JSONRPC::Query reads what has arrived).
PartRefused ==
    Came("json") /\ in.v \in PlainNodes[Nesting] =>
        LET t == JSONToString(in.v)
        IN  \A n \in 0..(Len(t) - 1) : ~Parsed(FromString(SubSeq(t, 1, n)))

=============================================================================
