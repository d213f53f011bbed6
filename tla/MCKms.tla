------------------------------- MODULE MCKms --------------------------------
(* Two calls: one with a timer, one with the caller's signal only and a     *)
(* provider that cannot decrypt.  The largest envelope that fits holds one  *)
(* byte of data and a key of two, or two bytes of data and a key of one.    *)
EXTENDS KmsEnvelope

CONSTANTS c1, c2

MCSupported == [c \in Calls |-> IF c = c1 THEN {"generateDataKey", "decrypt"} ELSE {"generateDataKey"}]

MCLimits == [maxInputBytes |-> 2, maxOutputBytes |-> 8,
             maxKmsEncryptedKeyBytes |-> 2, maxKmsKeyIdBytes |-> 1]
=============================================================================
