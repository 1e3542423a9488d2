------------------------------ MODULE Calldata -------------------------------
(***************************************************************************)
(* The layout of the pool's transactions.  The process that sends one      *)
(* joins fields of hex digits to calldata; the indexer, another process,   *)
(* cuts the same fields out of the calldata by fixed offsets.  Both make   *)
(* of it the record that clients list: commitment, transaction hash and    *)
(* the memo without what its type puts in front.                           *)
(*                                                                         *)
(* A digit is the field it belongs to and its place there, so that a cut   *)
(* at a wrong offset is seen.  Version 1 is what DefaultPool sent before,  *)
(* version 2 what RelayPool sends.                                         *)
(***************************************************************************)
EXTENDS Integers, SequencesExt

Versions == {1, 2}
TxTypes  == {"DEPOSIT", "TRANSFER", "WITHDRAWAL", "PERMITTABLE_DEPOSIT"}

(* numToHex: a number of so many bytes.                                      *)
Hex(name, bytes) == [i \in 1..(2 * bytes) |-> <<name, i>>]

(* Digits first..end-1, or as far as there are any.                          *)
Slice(digits, first, end) ==
  SubSeq(digits, first + 1, IF end < Len(digits) THEN end ELSE Len(digits))

(* encodeProof: eight numbers.                                               *)
Proof(name) == Hex(name, 8 * 32)

-----------------------------------------------------------------------------
(* External: the client's memo, in the order in which getTxData and          *)
(* getTxDataProverV2 read it.  The message follows.                          *)
Specific(type) ==
  IF type \in {"WITHDRAWAL", "PERMITTABLE_DEPOSIT"}
  THEN Hex("amountOrDeadline", 8) \o Hex("address", 20) ELSE <<>>

Head1(type) == Hex("transactFee", 8) \o Specific(type)

Head2(type) ==
  Hex("proxy", 20) \o Hex("prover", 20) \o Hex("transactFee", 8)
    \o Hex("treeUpdateFee", 8) \o Specific(type) \o Hex("length", 2)

Message == Hex("items", 2) \o Hex("commonPrefix", 2) \o Hex("notes", 3)

Memo(version, type) ==
  (IF version = 1 THEN Head1(type) ELSE Head2(type)) \o Message

(* txTypePrefixLen, txTypePrefixLenV2.                                       *)
PrefixLen(version, type) ==
  IF type \in {"DEPOSIT", "TRANSFER"} THEN IF version = 1 THEN 16 ELSE 116
  ELSE IF version = 1 THEN 72 ELSE 172

(* truncateMemoTxPrefix, truncateMemoTxPrefixProverV2.                       *)
Truncate(version, memo, type) == Slice(memo, PrefixLen(version, type), Len(memo))

(* checkMemoPrefix, checkMemoPrefixProverV2.                                 *)
PrefixChecked(version, memo, type) ==
  Slice(Truncate(version, memo, type), 4, 8) = Hex("commonPrefix", 2)

-----------------------------------------------------------------------------
(* The calldata of buildNormalTx.  The memo ends it, and for a deposit a      *)
(* signature.                                                                *)
Delta == Hex("transferIndex", 6) \o Hex("energyAmount", 14) \o Hex("tokenAmount", 8)

WithMemo(version, type) ==
  Hex("txType", 2) \o Hex("memoSize", 2) \o Memo(version, type)
    \o (IF type \in {"DEPOSIT", "PERMITTABLE_DEPOSIT"}
        THEN Hex("signature", 64) ELSE <<>>)

(* Version 1, with the proof of the tree.                                    *)
Calldata1(type) ==
  Hex("selector", 4) \o Hex("nullifier", 32) \o Hex("outCommit", 32) \o Delta
    \o Proof("tx") \o Hex("rootAfter", 32) \o Proof("tree") \o WithMemo(1, type)

(* Version 2, with a byte for the version.                                   *)
Calldata2(type) ==
  Hex("selector", 4) \o Hex("version", 1)
    \o Hex("nullifier", 32) \o Hex("outCommit", 32) \o Delta
    \o Proof("tx") \o WithMemo(2, type)

Calldata(version, type) == IF version = 1 THEN Calldata1(type) ELSE Calldata2(type)

(* Variant: the byte of the version is not counted.                          *)
FieldStartNoVersion(version) ==
  IF version = 1
  THEN [nullifier |-> 4, outCommit |-> 36, txType |-> 640, memoSize |-> 642, memo |-> 644]
  ELSE [nullifier |-> 4, outCommit |-> 36, txType |-> 352, memoSize |-> 354, memo |-> 356]

(* FIELDS, FIELDS_V2: where the fields are, in bytes.                        *)
FieldStart(version) ==
  IF version = 1
  THEN [nullifier |-> 4, outCommit |-> 36, txType |-> 640, memoSize |-> 642, memo |-> 644]
  ELSE [nullifier |-> 5, outCommit |-> 37, txType |-> 353, memoSize |-> 355, memo |-> 357]

(* getField.                                                                 *)
GetField(data, version, name, bytes) ==
  LET at == 2 * FieldStart(version)[name]
  IN  Slice(data, at, at + 2 * bytes)

(* A transaction may be sent again at another price, with another hash.      *)
Attempts == {"first", "later"}
TxHash(attempt) == Hex(attempt, 32)

(* buildPrefixedMemo.                                                        *)
Record(outCommit, txHash, memo) == outCommit \o txHash \o memo

-----------------------------------------------------------------------------
(* The process that sends it: what onSend keeps of it, with the hash of the  *)
(* first attempt; a later one does not change it.                            *)
SenderRecord(version, type) ==
  Record(Hex("outCommit", 32), TxHash("first"),
         Truncate(version, Memo(version, type), type))

(* addTxToState: a type or a size that is none ends in an error or a wrong   *)
(* memo (here: no digits).                                                   *)
ParsedMemo(data, version, type) ==
  LET read(name, bytes) == GetField(data, version, name, bytes)
  IN  IF /\ read("txType", 2) = Hex("txType", 2)
         /\ read("memoSize", 2) = Hex("memoSize", 2)
      THEN Truncate(version, read("memo", Len(Memo(version, type)) \div 2), type)
      ELSE <<>>

(* ... with the hash of the attempt that was mined.                          *)
IndexerRecord(version, type, mined) ==
  LET data == Calldata(version, type)
  IN  Record(GetField(data, version, "outCommit", 32), TxHash(mined),
             ParsedMemo(data, version, type))

(* Direct deposits have ABI parameters; the memo comes with the event.       *)
DirectParameters(version) ==
  IF version = 1 THEN <<"rootAfter", "indices", "outCommit", "proof", "treeProof">>
  ELSE <<"indices", "outCommit", "proof", "prover">>

(* addTxToState: res[2] of the old ones, res[1].                             *)
DirectCommit(version) == DirectParameters(version)[IF version = 1 THEN 3 ELSE 2]

(* txToV2Format: the state first, commitment and hash swapped.               *)
V2Format(state, record) ==
  <<state>> \o Slice(record, 64, 128) \o Slice(record, 0, 64)
    \o Slice(record, 128, Len(record))

(* getTransactionsV2 and the observer read the commitment of a listed        *)
(* transaction.                                                              *)
ListedCommit(listed) == Slice(listed, 65, 129)

-----------------------------------------------------------------------------
(* The two processes make the same of a transaction of a version and a type, *)
(* but for the hash when a later attempt was mined.                          *)
WithoutHash(record) == Slice(record, 0, 64) \o Slice(record, 128, Len(record))

RecordsAgree(version, type) ==
  /\ IndexerRecord(version, type, "first") = SenderRecord(version, type)
  /\ \A mined \in Attempts :
       LET record == IndexerRecord(version, type, mined) IN
       /\ WithoutHash(record) = WithoutHash(SenderRecord(version, type))
       /\ ListedCommit(V2Format("1", record)) = Hex("outCommit", 32)
  /\ PrefixChecked(version, Memo(version, type), type)
  /\ GetField(Calldata(version, type), version, "nullifier", 32) = Hex("nullifier", 32)
=============================================================================
