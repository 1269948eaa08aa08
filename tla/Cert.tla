-------------------------------- MODULE Cert --------------------------------
(***************************************************************************)
(* GenerateSelfSignedCert (src/unnamed/part_002), called by concurrent     *)
(* goroutines. The name argument is a pointer: the pkix.Name objects are   *)
(* heap state (cn) shared by every call that is passed the same pointer;   *)
(* a nil name is a fresh object local to the call. serialNumber is the     *)
(* package-level counter bumped with atomic.AddInt64.                      *)
(*                                                                         *)
(* Abstractions: addresses and common names are model values ("" is the  *)
(* empty string); an IP argument is "ok" or "bad" after net.ParseIP; keys, *)
(* signatures and DER bytes are left out, their failures kept. Each step   *)
(* is one of the function's phases; the switch on name.CommonName is one  *)
(* atomic step.                                                            *)
(***************************************************************************)
EXTENDS Naturals, Sequences, FiniteSets, SequencesExt

CONSTANTS Callers,    \* goroutines calling GenerateSelfSignedCert
          Addrs,      \* non-empty addresses / common names
          NameObjs,   \* pkix.Name objects callers may pass by pointer
          Nil,        \* a nil name argument
          Shared,     \* may two calls be passed the same pkix.Name?
          MaxCalls    \* bound on the calls of one goroutine

VARIABLES cn,            \* name.CommonName of each pkix.Name object
          preset,        \* the CommonName each caller put in its object
          serialNumber,  \* the package-level counter
          call,          \* the call each goroutine is in
          used,          \* objects already passed to some call
          issued,        \* certificates returned
          failures       \* errors returned

vars == <<cn, preset, serialNumber, call, used, issued, failures>>

Names == Addrs \cup {""}
IPArgs == BoundedSeq({"ok", "bad"}, 2)
Phases == {"idle", "validate", "parse", "keygen", "sign"}

Calls == [pc : Phases, n : 0..MaxCalls, addr : Names, name : NameObjs \cup {Nil},
          local : Names, given : Names, ips : IPArgs]

\* name.CommonName as the call sees it: its own fresh object when nil.
CommonName(c) ==
    IF call[c].name = Nil THEN call[c].local ELSE cn[call[c].name]

(* atomic.AddInt64(&serialNumber, 1): the counter after the add and the  *)
(* value returned, as one indivisible step.                              *)
AddInt64NoStore(ctr, d) == <<ctr, ctr + d>>

AddInt64(ctr, d) == <<ctr + d, ctr + d>>

(* Lines 59-68: which switch case a call with this address and this       *)
(* current CommonName takes.                                              *)
ValidateNoMismatch(addr, name) ==
    CASE addr = "" /\ name = ""  -> "missing"
      [] addr # "" /\ name = ""  -> "setCN"
      [] OTHER                   -> "valid"

Validate(addr, name) ==
    CASE addr = "" /\ name = ""                -> "missing"
      [] addr # "" /\ name = ""                -> "setCN"
      [] addr # "" /\ name # "" /\ name # addr -> "mismatch"
      [] OTHER                                 -> "valid"

Fail(c, reason) ==
    /\ failures' = failures \cup {[caller |-> c, addr |-> call[c].addr,
                                   given |-> call[c].given, reason |-> reason]}
    /\ call' = [call EXCEPT ![c].pc = "idle"]

Init ==
    /\ cn \in [NameObjs -> Names]
    /\ preset = cn
    /\ serialNumber = 0
    /\ call = [c \in Callers |-> [pc |-> "idle", n |-> 0, addr |-> "",
                                  name |-> Nil, local |-> "", given |-> "",
                                  ips |-> <<>>]]
    /\ used = {}
    /\ issued = {}
    /\ failures = {}

(* A goroutine calls GenerateSelfSignedCert(address, name, ips...).       *)
Start(c, addr, nm, ips) ==
    /\ call[c].pc = "idle"
    /\ call[c].n < MaxCalls
    /\ nm # Nil /\ ~Shared => nm \notin used
    /\ call' = [call EXCEPT ![c] = [pc |-> "validate", n |-> @.n + 1,
                   addr |-> addr, name |-> nm, local |-> "",
                   given |-> IF nm = Nil THEN "" ELSE preset[nm], ips |-> ips]]
    /\ used' = used \cup ({nm} \ {Nil})
    /\ UNCHANGED <<cn, preset, serialNumber, issued, failures>>

(* Lines 56-68: a nil name becomes a fresh object; the switch either      *)
(* fails, writes address into name.CommonName, or leaves it as it is.    *)
ValidateName(c) ==
    LET v == Validate(call[c].addr, CommonName(c)) IN
    /\ call[c].pc = "validate"
    /\ CASE v \in {"missing", "mismatch"} ->
              Fail(c, v) /\ UNCHANGED cn
         [] v = "setCN" /\ call[c].name = Nil ->
              call' = [call EXCEPT ![c].local = call[c].addr, ![c].pc = "parse"]
              /\ UNCHANGED <<cn, failures>>
         [] v = "setCN" ->
              cn' = [cn EXCEPT ![call[c].name] = call[c].addr]
              /\ call' = [call EXCEPT ![c].pc = "parse"]
              /\ UNCHANGED failures
         [] OTHER ->
              call' = [call EXCEPT ![c].pc = "parse"] /\ UNCHANGED <<cn, failures>>
    /\ UNCHANGED <<preset, serialNumber, used, issued>>

(* Lines 70-78: the loop returns at the first IP net.ParseIP rejects.    *)
ParseIPs(c) ==
    /\ call[c].pc = "parse"
    /\ IF "bad" \in Range(call[c].ips)
       THEN Fail(c, "badIP")
       ELSE call' = [call EXCEPT ![c].pc = "keygen"] /\ UNCHANGED failures
    /\ UNCHANGED <<cn, preset, serialNumber, used, issued>>

(* Lines 83-86: rsa.GenerateKey may fail (entropy source).              *)
GenerateKey(c) ==
    /\ call[c].pc = "keygen"
    /\ \/ call' = [call EXCEPT ![c].pc = "sign"] /\ UNCHANGED failures
       \/ Fail(c, "keyErr")
    /\ UNCHANGED <<cn, preset, serialNumber, used, issued>>

(* Lines 89-123: the serial is taken, *name is copied into the subject   *)
(* now (not when it was validated), DNSNames is {address}; signing or     *)
(* re-parsing may fail, after the serial was consumed.                    *)
Sign(c) ==
    LET r == AddInt64(serialNumber, 1) IN
    /\ call[c].pc = "sign"
    /\ serialNumber' = r[1]
    /\ \/ /\ issued' = issued \cup
                {[caller |-> c, addr |-> call[c].addr, given |-> call[c].given,
                  cn |-> CommonName(c), dns |-> <<call[c].addr>>,
                  serial |-> r[2], ips |-> Len(call[c].ips)]}
          /\ call' = [call EXCEPT ![c].pc = "idle"]
          /\ UNCHANGED failures
       \/ Fail(c, "signErr") /\ UNCHANGED issued
    /\ UNCHANGED <<cn, preset, used>>

Next ==
    \/ \E c \in Callers :
          \/ \E a \in Names, nm \in NameObjs \cup {Nil}, ips \in IPArgs :
                Start(c, a, nm, ips)
          \/ ValidateName(c)
          \/ ParseIPs(c)
          \/ GenerateKey(c)
          \/ Sign(c)

Spec == Init /\ [][Next]_vars

-----------------------------------------------------------------------------
TypeOK ==
    /\ cn \in [NameObjs -> Names]
    /\ call \in [Callers -> Calls]
    /\ serialNumber \in Nat
    /\ used \subseteq NameObjs
    /\ \A crt \in issued : crt.serial \in 1..serialNumber

(* The certificate a call returns is for the name its caller asked for:  *)
(* its subject CommonName is the address when one was given (the switch   *)
(* rejects a different preset CommonName) and the caller's own preset     *)
(* CommonName otherwise, which is never empty; it lists the address as   *)
(* its DNS name.                                                          *)
CertMatchesRequest ==
    \A crt \in issued :
        /\ crt.cn = IF crt.addr # "" THEN crt.addr ELSE crt.given
        /\ crt.cn # ""
        /\ crt.dns = <<crt.addr>>

(* The switch rejects a call only for the arguments its caller gave: "must *)
(* set either address or name.CommonName" only when both were empty, the   *)
(* mismatch error only when the caller set a different CommonName.         *)
FailsOnlyOnBadArguments ==
    \A f \in failures :
        /\ f.reason = "missing" => f.addr = "" /\ f.given = ""
        /\ f.reason = "mismatch" => f.addr # "" /\ f.given \notin {"", f.addr}

=============================================================================
