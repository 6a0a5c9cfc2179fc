---------------------------- MODULE TokenBucket ----------------------------
(***************************************************************************)
(* The client-side rate limiter of the ingester (rate_limiter.rs): one     *)
(* bucket shared by every fetch worker.  Time is discrete.  The fractional *)
(* token count of the code is kept exact by counting in Units of 1/Unit of *)
(* a token, Refill of which arrive with every tick, up to Burst of them.   *)
(***************************************************************************)
EXTENDS Integers, Sequences

CONSTANTS
    Unit,     \* units that make one token
    Refill,   \* units that arrive per tick: refill_per_sec
    Burst,    \* units the bucket can hold: capacity
    Horizon   \* bound: grants are dated exactly below this tick

ASSUME BucketAssumption == /\ {Unit, Refill, Burst} \subseteq Nat \ {0}
                           /\ Horizon \in Nat

VARIABLES
    tokens,   \* Inner.tokens, in units, as of the last call
    age,      \* ticks since Inner.last_refill, exact until the bucket is full
    now,      \* the clock, stopped at Horizon
    grants    \* history: the times at which acquire returned, in order

bucketVars == <<tokens, age, now, grants>>

(* What the refill of acquire yields at this moment. *)
Level == IF tokens + age * Refill < Burst THEN tokens + age * Refill ELSE Burst

(* Mutant: the sleep is for a whole token. *)
SleepForToken(level) == (Unit + Refill - 1) \div Refill

(* The sleep after which a refused caller tries again, in whole ticks. *)
SleepFor(level) == (Unit - level + Refill - 1) \div Refill

BucketInit == tokens = Burst /\ age = 0 /\ now = 0 /\ grants = <<>>

(* Mutant: last_refill is set on refusal only. *)
GrantKeepingAge == /\ Level >= Unit
                   /\ tokens' = Level - Unit
                   /\ grants' = Append(grants, now)
                   /\ UNCHANGED <<age, now>>

(* One turn of acquire's loop that finds a whole token and returns ... *)
Grant == /\ Level >= Unit
         /\ tokens' = Level - Unit
         /\ age' = 0
         /\ grants' = Append(grants, now)
         /\ UNCHANGED now

(* Mutant: the refill is dropped. *)
RefuseForgetting == /\ Level < Unit
                    /\ age' = 0
                    /\ UNCHANGED <<tokens, now, grants>>

(* ... and one that does not: the refill is kept, the caller will sleep. *)
Refuse == /\ Level < Unit
          /\ tokens' = Level
          /\ age' = 0
          /\ UNCHANGED <<now, grants>>

(* Time passes.  An age that already fills the bucket need not grow. *)
BucketTick == /\ age' = IF tokens + age * Refill < Burst THEN age + 1 ELSE age
              /\ now' = IF now < Horizon THEN now + 1 ELSE now
              /\ UNCHANGED <<tokens, grants>>

BucketNext == Grant \/ Refuse \/ BucketTick

BucketSpec == BucketInit /\ [][BucketNext]_bucketVars
-----------------------------------------------------------------------------
(* The bucket's variables stay in their ranges: acquire never takes a token *)
(* it does not have and never holds more than its capacity.                 *)
BucketTypeOK == /\ tokens \in 0..Burst
                /\ age \in Nat
                /\ now \in 0..Horizon
                /\ grants \in Seq(0..Horizon)

(* The cap the limiter exists for (FR-1.2): in every stretch of time, from  *)
(* one grant to any later one, no more tokens are handed out than the burst *)
(* plus what flowed in meanwhile.                                           *)
GrantsBounded ==
    \A j \in DOMAIN grants : grants[j] < Horizon =>
        \A i \in 1..j : Unit * (j - i + 1) <= Burst + Refill * (grants[j] - grants[i])

(* What the bound of GrantsBounded would be for one more grant made now. *)
WindowFull(i) == Unit * (Len(grants) - i + 2) > Burst + Refill * (now - grants[i])

(* The limiter is no stricter than its cap: acquire finds no token only     *)
(* when one more grant, at this moment, would exceed the cap in some window.*)
(* A bucket smaller than one token never grants anything, whatever flows in.*)
RefusesOnlyAtCap ==
    (Burst >= Unit /\ now < Horizon /\ Level < Unit) => \E i \in DOMAIN grants : WindowFull(i)
=============================================================================
