---------------------------- MODULE AccountLocks ----------------------------
(***************************************************************************)
(* resolve_account_locks (account_resolution.rs) and extract_program_ids   *)
(* (rpc_client.rs): which accounts a transaction locks, and how, from the  *)
(* order of its keys and three counts of the message header; and which of  *)
(* them are its programs.                                                  *)
(*                                                                         *)
(* A key is its index in the full account list: the static keys, then the  *)
(* loaded writable ones, then the loaded read-only ones.                   *)
(***************************************************************************)
EXTENDS Integers, SequencesExt

CONSTANTS MaxKeys,    \* bound on the static keys, and on each list of loaded ones
          MaxHeader   \* bound on a count of the header: 255 in the code

ASSUME LocksAssumption == MaxKeys \in Nat /\ MaxHeader \in Nat

VARIABLES tx,         \* the message: its counts, and the program indices used
          locks,      \* the locks resolved, a sequence
          programs,   \* the program ids extracted
          resolved    \* whether decode_transaction has returned

vars == <<tx, locks, programs, resolved>>

Header == [signatures : 0..MaxHeader, readonlySigned : 0..MaxHeader,
           readonlyUnsigned : 0..MaxHeader]

Transactions == [static : 0..MaxKeys, loadedWritable : 0..MaxKeys, loadedReadonly : 0..MaxKeys,
                 header : Header, program : 0..3 * MaxKeys]

SaturatingSub(a, b) == IF a > b THEN a - b ELSE 0
AtMost(a, n) == IF a < n THEN a ELSE n

(* The keys from index a (counted from 1) to index b. *)
KeysFrom(a, b) == [i \in 1..SaturatingSub(b + 1, a) |-> a + i - 1]

Static(t) == KeysFrom(1, t.static)
LoadedWritable(t) == KeysFrom(t.static + 1, t.static + t.loadedWritable)
LoadedReadonly(t) == KeysFrom(t.static + t.loadedWritable + 1,
                              t.static + t.loadedWritable + t.loadedReadonly)
-----------------------------------------------------------------------------
(* split_static_keys: the slices, with every bound cut to the keys there are. *)
SignedWritable(t) == SaturatingSub(t.header.signatures, t.header.readonlySigned)
SignedEnd(t) == AtMost(t.header.signatures, t.static)

(* Mutant: the read-only keys are counted from the front. *)
UnsignedWritableEndFront(t) ==
    AtMost(t.header.signatures + t.header.readonlyUnsigned, t.static)

UnsignedWritableEnd(t) ==
    AtMost(t.header.signatures
             + SaturatingSub(SaturatingSub(t.static, t.header.signatures), t.header.readonlyUnsigned),
           t.static)

StaticWritable(t) == SubSeq(Static(t), 1, AtMost(SignedWritable(t), t.static))
                       \o SubSeq(Static(t), SignedEnd(t) + 1, UnsignedWritableEnd(t))

(* Mutant: the signed read-only keys are cut at their own count. *)
StaticReadonlyShort(t) ==
    SubSeq(Static(t), AtMost(SignedWritable(t), t.static) + 1,
           AtMost(t.header.readonlySigned, t.static))
      \o SubSeq(Static(t), UnsignedWritableEnd(t) + 1, t.static)

StaticReadonly(t) == SubSeq(Static(t), AtMost(SignedWritable(t), t.static) + 1, SignedEnd(t))
                       \o SubSeq(Static(t), UnsignedWritableEnd(t) + 1, t.static)

Locks(keys, isWritable) == [i \in DOMAIN keys |-> [account |-> keys[i], writable |-> isWritable]]

ResolvedLocks(t) == Locks(StaticWritable(t) \o LoadedWritable(t), TRUE)
                      \o Locks(StaticReadonly(t) \o LoadedReadonly(t), FALSE)

(* extract_program_ids: an index beyond the full list yields no program. *)
(* Mutant: the split order of the locks is indexed. *)
ProgramsOfSplit(t) ==
    LET full == StaticWritable(t) \o StaticReadonly(t) \o LoadedWritable(t) \o LoadedReadonly(t)
    IN  {full[i] : i \in {t.program + 1} \cap DOMAIN full}

Programs(t) ==
    LET full == Static(t) \o LoadedWritable(t) \o LoadedReadonly(t)
    IN  {full[i] : i \in {t.program + 1} \cap DOMAIN full}
-----------------------------------------------------------------------------
Init == /\ tx \in Transactions
        /\ locks = <<>> /\ programs = {} /\ resolved = FALSE

(* The part of decode_transaction that resolves accounts. *)
Resolve == /\ ~resolved
           /\ resolved' = TRUE
           /\ locks' = ResolvedLocks(tx)
           /\ programs' = Programs(tx)
           /\ UNCHANGED tx

Spec == Init /\ [][Resolve]_vars
-----------------------------------------------------------------------------
AllKeys == 1..(tx.static + tx.loadedWritable + tx.loadedReadonly)

(* Whatever the header says, even counts that cannot be true, every key of   *)
(* the transaction is locked exactly once: the slices neither overlap nor    *)
(* leave a gap, and none runs past the keys.                                 *)
EveryKeyOnce ==
    resolved => /\ Len(locks) = Cardinality(AllKeys)
                /\ {locks[i].account : i \in DOMAIN locks} = AllKeys

(* A header that fits the keys: what a validator accepts. *)
WellFormed(t) == /\ t.header.readonlySigned <= t.header.signatures
                 /\ t.header.signatures + t.header.readonlyUnsigned <= t.static

(* The layout of account_resolution.rs:9-16: of the static keys, the last    *)
(* readonlySigned signers and the last readonlyUnsigned others are read-only,*)
(* of the loaded keys the second list.                                       *)
WritableByLayout(t, k) ==
    \/ k <= t.header.signatures - t.header.readonlySigned
    \/ k > t.header.signatures /\ k <= t.static - t.header.readonlyUnsigned
    \/ k > t.static /\ k <= t.static + t.loadedWritable

FollowsLayout ==
    (resolved /\ WellFormed(tx)) =>
        \A i \in DOMAIN locks : locks[i].writable <=> WritableByLayout(tx, locks[i].account)

(* A program is found under its index in the unsplit list (rpc_client.rs:    *)
(* 206-211), not under its place among the locks, and is locked itself.      *)
ProgramsAreIndexed ==
    resolved => programs = {tx.program + 1} \cap {locks[i].account : i \in DOMAIN locks}
=============================================================================
