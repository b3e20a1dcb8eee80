--------------------------------- MODULE MCOtp ---------------------------------
(* Otp on small instances: the calls of one kind are interchangeable.        *)
EXTENDS Otp, TLC

CallSymmetry == Permutations(Requests) \cup Permutations(Confirms)
================================================================================
