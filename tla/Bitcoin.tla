------------------------------- MODULE Bitcoin -------------------------------
(***************************************************************************)
(* Bitcoin data: ByteBuffer, the serialisation of transactions and blocks, *)
(* the Merkle tree and its partial rebuild, targets, hexadecimal text, and *)
(* what NetworkMgr and Client make of them: a block from a template, a job *)
(* from a block, a block header from a submitted share.                    *)
(*                                                                         *)
(* Widths are parameters so that the boundaries are in TLC's reach: a byte *)
(* is below Base, a uint32 has U32 bytes, a hash has Words of them.  Data  *)
(* is a sequence of bytes; hashing is a constructor that tells its inputs  *)
(* apart.                                                                  *)
(***************************************************************************)
EXTENDS Integers, Sequences, SequencesExt

CONSTANTS
    Nibble,     \* values of a hexadecimal digit: 16
    U32,        \* bytes of a uint32: 4
    Words,      \* uint32 words of a hash: 8
    DiffOne     \* the target of difficulty 1

ASSUME WidthAssumption ==
    /\ Nibble \in Nat \ 0..2 /\ U32 \in Nat \ 0..1 /\ Words \in Nat \ {0} /\ DiffOne \in Nat \ {0}
    /\ 3 * U32 < Nibble * Nibble - 3    \* the coinbase script has a length of one byte

Base == Nibble * Nibble
\* Pow[k]: numbers of k bytes.
Pow[k \in Nat] == IF k = 0 THEN 1 ELSE Base * Pow[k - 1]
U16 == 2
U64 == 2 * U32
HashLen == Words * U32

-----------------------------------------------------------------------------
(***************************************************************************)
(* ByteBuffer.  A read returns its value and the buffer after it.          *)
(***************************************************************************)
\* Append<T>: the low byte first.
Bytes(n, w) == [i \in 1..w |-> (n \div Pow[i - 1]) % Base]
Value(data) ==
    LET n[i \in 0..Len(data)] == IF i = 0 THEN 0 ELSE n[i - 1] * Base + data[Len(data) - i + 1]
    IN  n[Len(data)]

Buffer(data) == [vec |-> data, pointer |-> 0]

\* A read past the end returns nothing and leaves the pointer where it is.  The
\* code adds in 64 bits (ByteBuffer.h:59): the sum here is its sum for every size
\* below 2^64 - pointer.  Only a length field of damaged data is larger; what
\* Append has written never is.
ReadBinary(a, size) ==
    IF Len(a.vec) < a.pointer + size
    THEN [val |-> <<>>, buf |-> a]
    ELSE [val |-> SubSeq(a.vec, a.pointer + 1, a.pointer + size),
          buf |-> [a EXCEPT !.pointer = @ + size]]

\* Read<T>: 0 past the end.
Read(a, w) ==
    LET Number(r) == [r EXCEPT !.val = Value(@)] IN Number(ReadBinary(a, w))

\* Hexadecimal text: a character is its digit, or no digit at all and then 0.
ASCIIToHex(ch) == IF ch \in 0..(Nibble - 1) THEN ch ELSE 0
ASCIIToBin(str) ==
    [i \in 1..((Len(str) + 1) \div 2) |->
        ASCIIToHex(str[2 * i - 1]) * Nibble
            + (IF 2 * i <= Len(str) THEN ASCIIToHex(str[2 * i]) ELSE 0)]
BinToASCII(data) ==
    [i \in 1..(2 * Len(data)) |->
        LET b == data[(i + 1) \div 2] IN IF i % 2 = 1 THEN b \div Nibble ELSE b % Nibble]

-----------------------------------------------------------------------------
(***************************************************************************)
(* The members of the classes.  The length of a list is a uint64, an int64 *)
(* is the number of its bits.                                              *)
(***************************************************************************)
Byte == 0..(Base - 1)
Uint(w) == 0..(Pow[w] - 1)
Hash == {s \in Seq(Byte) : Len(s) = HashLen}
List(S) == {s \in Seq(S) : Len(s) \in Uint(U64)}

OutPoint == [hash : Hash, n : Uint(U32)]
TxIn == [prevout : OutPoint, script : List(Byte), n : Uint(U32)]
TxOut == [value : Uint(U64), scriptPubKey : List(Byte)]
Transaction == [version : Uint(U32), in : List(TxIn), out : List(TxOut), lockTime : Uint(U32)]
Block ==
    [version : Uint(U32), prevBlockHash : Hash, merkleRootHash : Hash,
     time : Uint(U32), bits : Uint(U32), nonce : Uint(U32), tx : List(Transaction)]

-----------------------------------------------------------------------------
(***************************************************************************)
(* Serialisation.                                                          *)
(***************************************************************************)
WriteVarIntLow(n) ==
    CASE n <= Base - 3 -> <<n>>
      [] n > Base - 3 /\ n < Pow[U16] -> <<Base - 3>> \o Bytes(n, U16)
      [] n >= Pow[U16] /\ n < Pow[U32] -> <<Base - 2>> \o Bytes(n, U32)
      [] OTHER -> <<Base - 1>> \o Bytes(n, U64)

WriteVarInt(n) ==
    CASE n < Base - 3 -> <<n>>
      [] n >= Base - 3 /\ n < Pow[U16] -> <<Base - 3>> \o Bytes(n, U16)
      [] n >= Pow[U16] /\ n < Pow[U32] -> <<Base - 2>> \o Bytes(n, U32)
      [] OTHER -> <<Base - 1>> \o Bytes(n, U64)

ReadVarInt(a) ==
    LET Form(size) ==
            CASE size.val < Base - 3 -> size
              [] size.val = Base - 3 -> Read(size.buf, U16)
              [] size.val = Base - 2 -> Read(size.buf, U32)
              [] OTHER -> Read(size.buf, U64)
    IN  Form(Read(a, 1))

\* a >> x: the buffer, and the values read from it so far.
Start(a) == [buf |-> a, val |-> <<>>]
Put(r, x) == [buf |-> x.buf, val |-> Append(r.val, x.val)]
NextInt(r, w) == Put(r, Read(r.buf, w))
NextBinary(r, size) == Put(r, ReadBinary(r.buf, size))

\* A vector: its length, then its elements (written already).
WriteVector(s) == WriteVarInt(Len(s)) \o FlattenSeq(s)
ReadVector(ReadOne(_), a) ==
    LET Elements(size) ==
            LET More(r) == Put(r, ReadOne(r.buf))
                r[i \in 0..size.val] == IF i = 0 THEN Start(size.buf) ELSE More(r[i - 1])
            IN  r[size.val]
    IN  Elements(ReadVarInt(a))

WriteScript(s) == WriteVarInt(Len(s)) \o s
ReadScript(a) ==
    LET Script(size) == ReadBinary(size.buf, size.val) IN Script(ReadVarInt(a))
NextScript(r) == Put(r, ReadScript(r.buf))

WriteOutPoint(p) == p.hash \o Bytes(p.n, U32)
ReadOutPoint(a) ==
    LET Point(r) == [buf |-> r.buf, val |-> [hash |-> r.val[1], n |-> r.val[2]]]
    IN  Point(NextInt(NextBinary(Start(a), HashLen), U32))

WriteTxIn(in) == WriteOutPoint(in.prevout) \o WriteScript(in.script) \o Bytes(in.n, U32)
ReadTxIn(a) ==
    LET In(r) == [buf |-> r.buf, val |-> [prevout |-> r.val[1], script |-> r.val[2], n |-> r.val[3]]]
    IN  In(NextInt(NextScript(Put(Start(a), ReadOutPoint(a))), U32))

WriteTxOut(out) == Bytes(out.value, U64) \o WriteScript(out.scriptPubKey)
ReadTxOut(a) ==
    LET Out(r) == [buf |-> r.buf, val |-> [value |-> r.val[1], scriptPubKey |-> r.val[2]]]
    IN  Out(NextScript(NextInt(Start(a), U64)))

WriteTransaction(t) ==
    Bytes(t.version, U32)
        \o WriteVector([i \in DOMAIN t.in |-> WriteTxIn(t.in[i])])
        \o WriteVector([i \in DOMAIN t.out |-> WriteTxOut(t.out[i])])
        \o Bytes(t.lockTime, U32)
ReadTransaction(a) ==
    LET Ins(r) == Put(r, ReadVector(ReadTxIn, r.buf))
        Outs(r) == Put(r, ReadVector(ReadTxOut, r.buf))
        Tx(r) ==
            [buf |-> r.buf,
             val |-> [version |-> r.val[1], in |-> r.val[2], out |-> r.val[3], lockTime |-> r.val[4]]]
    IN  Tx(NextInt(Outs(Ins(NextInt(Start(a), U32))), U32))

WriteHeader(b) ==
    Bytes(b.version, U32) \o b.prevBlockHash \o b.merkleRootHash
        \o Bytes(b.time, U32) \o Bytes(b.bits, U32) \o Bytes(b.nonce, U32)
WriteBlock(b) == WriteHeader(b) \o WriteVector([i \in DOMAIN b.tx |-> WriteTransaction(b.tx[i])])
ReadBlock(a) ==
    LET Hashes(r) == NextBinary(NextBinary(r, HashLen), HashLen)
        Ints(r) == NextInt(NextInt(NextInt(r, U32), U32), U32)
        Txs(r) == Put(r, ReadVector(ReadTransaction, r.buf))
        Whole(r) ==
            [buf |-> r.buf,
             val |-> [version |-> r.val[1], prevBlockHash |-> r.val[2], merkleRootHash |-> r.val[3],
                      time |-> r.val[4], bits |-> r.val[5], nonce |-> r.val[6], tx |-> r.val[7]]]
    IN  Whole(Txs(Ints(Hashes(NextInt(Start(a), U32)))))

-----------------------------------------------------------------------------
(***************************************************************************)
(* Hashes and the Merkle tree.                                             *)
(***************************************************************************)
\* Crypto::SHA256D: two inputs are told apart by their hashes.
SHA256D(data) == <<-1>> \o data \o <<-2>>
TxHash(t) == SHA256D(WriteTransaction(t))
BlockHash(b) == SHA256D(WriteHeader(b))

Half(size) == (size + 1) \div 2
\* The levels of a tree of n leaves: where each starts, and its size.
Level(n) ==
    LET Above(l) == [j |-> l.j + l.size, size |-> Half(l.size)]
        level[k \in Nat] == IF k = 0 THEN [j |-> 0, size |-> n] ELSE Above(level[k - 1])
    IN  level
\* The loops over the levels end at the first one of size 1, the root's.
Depth(n) ==
    CHOOSE d \in 0..n : Level(n)[d].size <= 1 /\ \A k \in 0..n : k < d => Level(n)[k].size > 1

BuildMerkleTree(tx) ==
    LET Pairs(t, l) ==
            t \o [i \in 1..Half(l.size) |->
                     SHA256D(t[l.j + 2 * i - 1]
                             \o t[l.j + (IF 2 * i <= l.size THEN 2 * i ELSE l.size)])]
        tree[k \in 0..Depth(Len(tx))] ==
            IF k = 0 THEN [i \in DOMAIN tx |-> TxHash(tx[i])]
            ELSE Pairs(tree[k - 1], Level(Len(tx))[k - 1])
    IN  tree[Depth(Len(tx))]

\* Only the left side changes with the coinbase.
RebuildMerkleTree(merkleTree, tx) ==
    LET Left(t, l) == [t EXCEPT ![l.j + l.size + 1] = SHA256D(t[l.j + 1] \o t[l.j + 2])]
        tree[k \in 0..Depth(Len(tx))] ==
            IF k = 0 THEN [merkleTree EXCEPT ![1] = TxHash(tx[1])]
            ELSE Left(tree[k - 1], Level(Len(tx))[k - 1])
    IN  tree[Depth(Len(tx))]

-----------------------------------------------------------------------------
(***************************************************************************)
(* Targets.                                                                *)
(***************************************************************************)
TargetToDiffUp(val) == (DiffOne + val - 1) \div val
TargetToDiff(val) == DiffOne \div val
DiffToTarget(val) == TargetToDiff(val)

\* The first byte of bits is the length of the target, the others lead it.  A
\* length below that of the others makes the exponent negative, which the
\* library cannot raise to: such bits are outside the domain.
TargetFromBits(bits) ==
    LET lead == Pow[U32 - 1] IN (bits % lead) * Pow[(bits \div lead) - (U32 - 1)]

-----------------------------------------------------------------------------
(***************************************************************************)
(* From the template to the job and back.                                  *)
(***************************************************************************)
OP_CHECKSIG == Base - 1
Zeros(n) == [i \in 1..n |-> 0]

\* The script of the input is the height and room for both extranonces.
CreateCoinbaseTX(height, pubkey, value) ==
    [version |-> 1,
     in |-> <<[prevout |-> [hash |-> Zeros(HashLen), n |-> Pow[U32] - 1],
               script |-> Bytes(height, U32) \o Zeros(2 * U32), n |-> 0]>>,
     out |-> <<[value |-> value, scriptPubKey |-> Append(pubkey, OP_CHECKSIG)]>>,
     lockTime |-> 0]

\* UpdateBlockTemplate: the answer of getblocktemplate becomes a block.
TemplateBlock(r, height, pubkey) ==
    LET WithTree(tx, tree) ==
            [version |-> r.version,
             prevBlockHash |-> Reverse(ASCIIToBin(r.previousblockhash)),
             merkleRootHash |-> Last(tree), time |-> r.curtime,
             bits |-> Read(Buffer(Reverse(ASCIIToBin(r.bits))), U32).val,
             nonce |-> 0, tx |-> tx, merkleTree |-> tree]
        Of(tx) == WithTree(tx, BuildMerkleTree(tx))
    IN  Of(<<CreateCoinbaseTX(height, pubkey, r.coinbasevalue)>>
           \o [i \in DOMAIN r.transactions |->
                  ReadTransaction(Buffer(ASCIIToBin(r.transactions[i]))).val])

CBSplit == U32 + HashLen + U32 + 2 + U32

\* GetJob: the coinbase is cut where the extranonces go.
GetJob(b) ==
    LET coinbase == WriteTransaction(b.tx[1])
    IN  [coinbase1 |-> SubSeq(coinbase, 1, CBSplit),
         coinbase2 |-> SubSeq(coinbase, CBSplit + 2 * U32 + 1, Len(coinbase))]

\* Words of uint32 one after the other.
Joined(words) == [i \in 1..HashLen |-> words[1 + (i - 1) \div U32][1 + ((i - 1) % U32)]]
Word(data, k) == SubSeq(data, (k - 1) * U32 + 1, k * U32)

\* The words of the reversed hash, the last one first.
SwapWords(hash) == Joined([k \in 1..Words |-> Word(Reverse(hash), Words + 1 - k)])

BranchFirst(b) ==
    [k \in 1..Depth(Len(b.tx)) |-> b.merkleTree[Level(Len(b.tx))[k - 1].j + 1]]
MerkleBranch(b) ==
    [k \in 1..Depth(Len(b.tx)) |-> b.merkleTree[Level(Len(b.tx))[k - 1].j + 2]]

\* SendJob: the parameters of mining.notify.
JobMessage(b, job) ==
    [prevhash |-> SwapWords(b.prevBlockHash),
     coinbase1 |-> job.coinbase1, coinbase2 |-> job.coinbase2,
     branch |-> MerkleBranch(b),
     version |-> Reverse(Bytes(b.version, U32)),
     bits |-> Reverse(Bytes(b.bits, U32))]

\* OnMiningSubmit: the block a share stands for.  The client's extranonce is a
\* number, the other fields are bytes as the miner sends them.
ShareBlock(b, job, extranonce, extranonce2, ntime, nonce) ==
    LET WithTree(tx, tree) ==
            [b EXCEPT !.time = Read(Buffer(Reverse(ntime)), U32).val,
                      !.nonce = Read(Buffer(Reverse(nonce)), U32).val,
                      !.tx = tx, !.merkleTree = tree, !.merkleRootHash = Last(tree)]
        Of(tx) == WithTree(tx, RebuildMerkleTree(b.merkleTree, tx))
        coinbase == job.coinbase1 \o Bytes(extranonce, U32) \o extranonce2 \o job.coinbase2
    IN  Of([b.tx EXCEPT ![1] = ReadTransaction(Buffer(coinbase)).val])

ShareKeyOfNonce(extranonce2, nonce) == Read(Buffer(Reverse(nonce)), U32).val

\* The nonce and the second extranonce in one uint64.
ShareKey(extranonce2, nonce) == Read(Buffer(Reverse(nonce) \o extranonce2), U64).val

=============================================================================
