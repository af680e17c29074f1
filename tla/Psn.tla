--------------------------------- MODULE Psn ---------------------------------
(***************************************************************************)
(* Packet and message sequence numbers of the driver.                      *)
(*                                                                         *)
(* A Psn is a 24 bit number kept in a u32; every arithmetic operation of   *)
(* rdma_utils/psn.rs masks its result, and Ord::cmp compares two Psns by   *)
(* the masked distance between them.  The width is a parameter: the code   *)
(* has MAX_PSN_WINDOW = 2^23, and PSN_COUNT = 2^24 = 2 * MAX_PSN_WINDOW.   *)
(* An Msn is a u16 with the half window MAX_SEND_WR = 2^15.                *)
(***************************************************************************)
EXTENDS Integers

CONSTANTS MAX_PSN_WINDOW, MAX_SEND_WR

ASSUME PsnWindowAssumption == MAX_PSN_WINDOW \in Nat \ {0}
ASSUME SendWrAssumption    == MAX_SEND_WR \in Nat \ {0}

PSN_COUNT == 2 * MAX_PSN_WINDOW
MSN_COUNT == 2 * MAX_SEND_WR

Psn == 0 .. PSN_COUNT - 1
Msn == 0 .. MSN_COUNT - 1

\* Option<Psn>::None.
NoPsn == -1

\* Mutant of PsnAdd: the sum is not masked.
PsnAddUnmasked(p, n) == p + n

PsnAdd(p, n) == (p + n) % PSN_COUNT
PsnSub(p, n) == (p - n) % PSN_COUNT

\* Ord::cmp.  At distance exactly MAX_PSN_WINDOW neither number is below the
\* other: the comparison answers Greater in both directions.
PsnLT(a, b) == PsnSub(a, b) > MAX_PSN_WINDOW
PsnLE(a, b) == a = b \/ PsnLT(a, b)

MsnSub(a, b) == (a - b) % MSN_COUNT
MsnLT(a, b)  == MsnSub(a, b) > MAX_SEND_WR
==============================================================================
