---------------------------- MODULE MCEnrollment ----------------------------
(* Instances of Enrollment for TLC: a stamp program with a welcome bonus, a     *)
(* sale that is open on day 2 only, and a program that does not exist.          *)
EXTENDS Enrollment, TLC

CONSTANTS stamps, sale, gone, d1, ana, bea, k1, k2, k3

MCPrograms ==
  stamps :> [type |-> "loyalty_stamps", active |-> TRUE, valid_from |-> NoDate,
             valid_until |-> NoDate, mechanic |-> "stamps", welcome_bonus |-> 2] @@
  sale :> [type |-> "seasonal_discount", active |-> TRUE, valid_from |-> 2,
           valid_until |-> 2, mechanic |-> "none", welcome_bonus |-> 0]

Enroll(key, p, device, person) ==
  [key |-> key, program |-> p, body |-> [device |-> device, person |-> person]]

\* A device that repeats itself under one key and under another, a key reused for
\* another program and person, two customers with the empty dedupe key, one with
\* none, a program that does not exist.
DeviceRequests ==
  {Enroll(k1, sale, d1, ana), Enroll(k2, sale, d1, ana), Enroll(k2, stamps, Blank, bea),
   Enroll(k3, stamps, Blank, ana), Enroll(k3, stamps, NoDevice, ana),
   Enroll(k3, gone, d1, ana)}

\* One key and one body, sent to two programs.
CrossProgramRequests == {Enroll(k1, stamps, d1, ana), Enroll(k1, sale, d1, ana)}

InvocationSymmetry == Permutations(Invocation)
=============================================================================
