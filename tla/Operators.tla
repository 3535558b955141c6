------------------------------ MODULE Operators ------------------------------
(***************************************************************************)
(* The two native operators the Go code calls through cgo: `add` of the C  *)
(* library and `sub` of the Rust library, and the pair of accumulators     *)
(* (calculators.Values) they drive.                                        *)
(*                                                                         *)
(* An int64 keeps its width: MaxInt stands for math.MaxInt64, and a result *)
(* that leaves the range wraps around.  For `sub` the release profile of   *)
(* rust_lib makes that the defined result; for `add` signed overflow is    *)
(* undefined in C, and gcc -O2 (Makefile, Dockerfile) emits one wrapping   *)
(* addition for `return a + b`, the only outcome that build produces.      *)
(***************************************************************************)
EXTENDS Integers

CONSTANT MaxInt     \* The greatest int64.

ASSUME MaxIntAssumption == MaxInt \in Nat

MinInt == -MaxInt - 1

Int64 == MinInt .. MaxInt

(* What remains of an exact sum or difference of two int64 values. *)
Wrap(x) == CASE x > MaxInt -> x - 2 * MaxInt - 2
             [] x < MinInt -> x + 2 * MaxInt + 2
             [] OTHER      -> x

add(a, b) == Wrap(a + b)

sub(a, b) == Wrap(a - b)

(***************************************************************************)
(* calculators.Values, and what dualState.calculate does to it.            *)
(***************************************************************************)
Values == [Sum : Int64, Sub : Int64]

ZeroValues == [Sum |-> 0, Sub |-> 0]

Calculated(v, num) == [Sum |-> add(v.Sum, num), Sub |-> sub(v.Sub, num)]

(* The two totals belong to the same numbers: one is the other negated. *)
Agree(v) == v.Sub = sub(0, v.Sum)

=============================================================================
