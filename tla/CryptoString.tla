----------------------------- MODULE CryptoString -----------------------------
(***************************************************************************)
(* CryptoString(n) of src/server/auth/server/oidc.go: grow numBytes until *)
(* base64.RawURLEncoding.EncodedLen(numBytes) exceeds n, read that many    *)
(* random bytes, encode them. Used with n = 30 for the OIDC state token    *)
(* and nonce. The loop is modelled step by step; the bytes themselves are  *)
(* abstracted away, only the length of the encoding matters.               *)
(***************************************************************************)
EXTENDS Naturals, FiniteSetsExt

CONSTANT MaxN   \* the largest n checked

VARIABLES n, numBytes, pc

vars == <<n, numBytes, pc>>

(* Reference: the number of characters unpadded base64 produces for b     *)
(* bytes, one group of 4 characters per 3 bytes and 2 or 3 for the rest.  *)
RawLen(b) == 4 * (b \div 3) + (CASE b % 3 = 0 -> 0 [] b % 3 = 1 -> 2 [] OTHER -> 3)

(* base64.RawURLEncoding.DecodedLen: the bytes n characters decode to.   *)
EncodedLenAsDecoded(b) == (b * 6) \div 8

(* base64.RawURLEncoding.EncodedLen, as the loop condition uses it.       *)
EncodedLen(b) == (b * 8 + 5) \div 6

Init ==
    /\ n \in 0..MaxN
    /\ numBytes = 0
    /\ pc = "loop"

(* for n >= base64.RawURLEncoding.EncodedLen(numBytes) { numBytes++ }     *)
Grow ==
    /\ pc = "loop"
    /\ n >= EncodedLen(numBytes)
    /\ numBytes' = numBytes + 1
    /\ UNCHANGED <<n, pc>>

ExitLoop ==
    /\ pc = "loop"
    /\ n < EncodedLen(numBytes)
    /\ pc' = "read"
    /\ UNCHANGED <<n, numBytes>>

(* rand.Read fills the buffer, or fails and CryptoString panics.          *)
ReadRandom ==
    /\ pc = "read"
    /\ pc' \in {"done", "panic"}
    /\ UNCHANGED <<n, numBytes>>

Next == Grow \/ ExitLoop \/ ReadRandom

(* Once rand.Read has returned, nothing more happens.                     *)
Spec == Init /\ [][Next]_vars

-----------------------------------------------------------------------------
TypeOK ==
    /\ n \in 0..MaxN
    /\ numBytes \in 0..MaxN + 1
    /\ pc \in {"loop", "read", "done", "panic"}

(* spec.md 4.1: the encoded length is the smallest value >= n that an     *)
(* encoding of whole bytes can have.                                      *)
SmallestEncodableLength ==
    pc = "done" => RawLen(numBytes) = Min({RawLen(b) : b \in 0..n} \cap {k \in Nat : k >= n})
=============================================================================
