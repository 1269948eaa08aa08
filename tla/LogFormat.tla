----------------------------- MODULE LogFormat -----------------------------
(***************************************************************************)
(* The log package (src/unnamed/part_000): the Pretty formatter and the   *)
(* GRPCLogWriter that turns gRPC log lines into logrus entries, composed   *)
(* through a logrus logger whose formatter is Pretty.                      *)
(*                                                                         *)
(* Data abstraction. entry.Data is a Go map: a function whose domain is   *)
(* the keys present, each holding the kind of its value ("nil" is a key   *)
(* set to nil; "func" a value json.Marshal rejects). A gRPC line is the   *)
(* sequence of its space-separated words ("" for an extra space). Times,  *)
(* level names and the message text are left out.                         *)
(*                                                                         *)
(* logrus runs the hooks of an entry and then its writer on the same      *)
(* entry; a hook that renders it (entry.String()) calls the formatter     *)
(* once more first. HookFormats is the number of such hook renderings.    *)
(***************************************************************************)
EXTENDS Naturals, Sequences, FiniteSets, SequencesExt

CONSTANTS HookFormats,   \* formatter calls made by hooks before the writer's
          MaxLogs,       \* bound on application log calls
          MaxWrites      \* bound on GRPCLogWriter.Write calls

VARIABLES pending,   \* entries handed to the logger, not yet formatted
          out,       \* what the writer's Pretty call produced, per entry
          written,   \* the gRPC lines passed to Write, in order
          logs,      \* number of application log calls so far
          crashed    \* a formatter call panicked: the process is gone

vars == <<pending, out, written, logs, crashed>>

Keys == {"service", "method", "duration", "error", "source"}
Vals == {"str", "dur", "float", "nil", "func"}
Levels == {"info", "warning", "error"}
Words == {"INFO:", "ERROR:", "WARNING:", "FATAL:", "DEBUG:", "w", ""}

Fields == UNION {[S -> Vals] : S \in SUBSET Keys}

\* A message: text (as words), the %v of a []byte, or a fixed note.
Msgs == [fmt : {"text", "bytes"}, words : Seq(Words)] \cup [fmt : {"note"}]

\* from = 0 for application entries, k for the k-th gRPC line.
Entries == [level : Levels, data : Fields, msg : Msgs, from : Nat]

\* entry.Data[k] in Go: nil for a missing key.
Get(d, k) == IF k \in DOMAIN d THEN d[k] ELSE "nil"

NonNil(d, k) == Get(d, k) # "nil"

\* Go's delete on a map.
Delete(d, ks) == Restrict(d, DOMAIN d \ ks)

\* Line 35: the service.method prefix is printed.
HasPrefixEither(d) == NonNil(d, "service") \/ NonNil(d, "method")

HasPrefix(d) == NonNil(d, "service") /\ NonNil(d, "method")

(* Lines 41-51 on the map left by the prefix step: when it is not empty, *)
(* the duration is replaced in place by its seconds (the type assertion   *)
(* panics on anything but a time.Duration), then json.Marshal, which      *)
(* fails on a value it cannot encode.                                     *)
MarshalFieldsNoConvert(d1) ==
    LET status == IF DOMAIN d1 # {} /\ "func" \in Range(d1) THEN "err" ELSE "ok"
    IN [status |-> status, json |-> IF status = "ok" THEN d1 ELSE <<>>,
        data |-> d1]

MarshalFields(d1) ==
    LET conv == DOMAIN d1 # {} /\ NonNil(d1, "duration")
        d2 == IF conv THEN [d1 EXCEPT !["duration"] = "float"] ELSE d1
        status == CASE conv /\ d1["duration"] # "dur"         -> "panic"
                    [] DOMAIN d1 # {} /\ "func" \in Range(d2) -> "err"
                    [] OTHER                                  -> "ok"
    IN [status |-> status, json |-> IF status = "ok" THEN d2 ELSE <<>>,
        data |-> d2]

(* One call of Pretty on entry.Data d. "data" is entry.Data after the     *)
(* call (Pretty deletes and converts in place), "json" what was printed   *)
(* (the empty function when len(entry.Data) was 0 or the call failed).   *)
Pretty(d) ==
    LET prefix == HasPrefix(d)
        d1 == IF prefix THEN Delete(d, {"service", "method"}) ELSE d
        m == MarshalFields(d1)
    IN [prefix |-> prefix, status |-> m.status, json |-> m.json, data |-> m.data]

(* logrus: the hooks' formatter calls, then the writer's, all on the same *)
(* entry.Data; a panic in any of them ends the process.                   *)
RECURSIVE Render(_, _)
Render(d, n) ==
    IF n = 0 THEN Pretty(d)
    ELSE LET r == Pretty(d) IN
         IF r.status = "panic" THEN r ELSE Render(r.data, n - 1)

(* strings.SplitN(s, " ", n) on the words of s.                           *)
SplitNDropsWord(p, n) ==
    IF Len(p) <= n THEN [i \in 1..Len(p) |-> <<p[i]>>]
    ELSE [i \in 1..n |-> IF i < n THEN <<p[i]>> ELSE SubSeq(p, n + 1, Len(p))]

SplitN(p, n) ==
    IF Len(p) <= n THEN [i \in 1..Len(p) |-> <<p[i]>>]
    ELSE [i \in 1..n |-> IF i < n THEN <<p[i]>> ELSE SubSeq(p, n, Len(p))]

(* strings.TrimSpace on a space-joined word sequence: drop the empty      *)
(* words at either end.                                                   *)
RECURSIVE TrimSpace(_)
TrimSpace(ws) ==
    CASE ws # <<>> /\ Head(ws) = ""      -> TrimSpace(Tail(ws))
      [] ws # <<>> /\ ws[Len(ws)] = ""   -> TrimSpace(SubSeq(ws, 1, Len(ws) - 1))
      [] OTHER                           -> ws

Note == [fmt |-> "note"]

(* The entries GRPCLogWriter.Write(p) logs, all with the source field.    *)
WriteEntries(p, k) ==
    LET parts == SplitN(p, 4)
        src == [x \in {"source"} |-> "str"]
        E(lvl, m) == [level |-> lvl, data |-> src, msg |-> m, from |-> k]
        text == [fmt |-> "text", words |-> TrimSpace(parts[4])]
        lvl == parts[1][1]
    IN IF Len(parts) = 4
       THEN CASE lvl = "INFO:"    -> <<E("info", text)>>
              [] lvl = "WARNING:" -> <<E("warning", text)>>
              [] lvl \in {"ERROR:", "FATAL:"} -> <<E("error", text)>>
              [] OTHER -> <<E("error", text), E("error", Note)>>
       ELSE <<E("error", [fmt |-> "bytes", words |-> p]), E("error", Note)>>

\* The fields the server's own logging attaches (service, method, the
\* call's duration, an error value), each present or not.
AppVals == [service |-> {"str"}, method |-> {"str", "nil"},
           duration |-> {"dur"}, error |-> {"str", "func"}]

AppFields ==
    {f \in Fields : /\ DOMAIN f \subseteq DOMAIN AppVals
                    /\ \A k \in DOMAIN f : f[k] \in AppVals[k]}

GRPCLines == {<<l>> \o r : l \in Words \ {"w", ""}, r \in BoundedSeq({"w", ""}, 4)}

Init ==
    /\ pending = <<>>
    /\ out = <<>>
    /\ written = <<>>
    /\ logs = 0
    /\ crashed = FALSE

(* Server code logs an entry with fields (logrus WithFields(...).Info).   *)
Log(d) ==
    /\ ~crashed
    /\ logs < MaxLogs
    /\ logs' = logs + 1
    /\ pending' = Append(pending, [level |-> "info", data |-> d,
                                  msg |-> [fmt |-> "text", words |-> <<"w">>],
                                  from |-> 0])
    /\ UNCHANGED <<out, written, crashed>>

(* gRPC or etcd writes one log line through GRPCLogWriter.Write.          *)
GRPCWrite(p) ==
    /\ ~crashed
    /\ Len(written) < MaxWrites
    /\ written' = Append(written, p)
    /\ pending' = pending \o WriteEntries(p, Len(written) + 1)
    /\ UNCHANGED <<out, logs, crashed>>

(* The logger formats the next entry: hooks, then the writer's Pretty.   *)
FormatEntry ==
    /\ ~crashed
    /\ pending # <<>>
    /\ LET e == Head(pending)
           r == Render(e.data, HookFormats)
       IN /\ crashed' = (r.status = "panic")
          /\ out' = IF r.status = "panic" THEN out
                    ELSE Append(out, [orig |-> e, status |-> r.status,
                                      prefix |-> r.prefix, json |-> r.json])
    /\ pending' = Tail(pending)
    /\ UNCHANGED <<written, logs>>

Next ==
    \/ \E d \in AppFields : Log(d)
    \/ \E p \in GRPCLines : GRPCWrite(p)
    \/ FormatEntry

Spec == Init /\ [][Next]_vars

-----------------------------------------------------------------------------
\* Every field of an entry that reached the log output.
Printed == {out[i] : i \in {j \in DOMAIN out : out[j].status = "ok"}}

\* json.Marshal only ever sees a duration already turned into seconds.
TypeOK ==
    /\ pending \in Seq(Entries)
    /\ out \in Seq([orig : Entries, status : {"ok", "err"}, prefix : BOOLEAN,
                    json : UNION {[S -> Vals \ {"dur"}] : S \in SUBSET Keys}])
    /\ written \in Seq(Seq(Words))
    /\ logs \in 0..MaxLogs
    /\ crashed \in BOOLEAN

(* Pretty shows every field of the entry exactly once: service and method *)
(* in the "service.method" prefix when both are non-nil, every other      *)
(* field (and those two otherwise) in the JSON, a duration in seconds.    *)
(* The prefix test, the in-place deletes and the conversion must agree.   *)
PrettyShowsEveryFieldOnce ==
    \A o \in Printed :
        LET d == o.orig.data
            inPrefix == IF o.prefix THEN {"service", "method"} ELSE {}
        IN /\ o.prefix => NonNil(d, "service") /\ NonNil(d, "method")
           /\ inPrefix \cup DOMAIN o.json = DOMAIN d
           /\ inPrefix \cap DOMAIN o.json = {}
           /\ \A k \in DOMAIN o.json :
                 o.json[k] = IF d[k] = "dur" THEN "float" ELSE d[k]

(* GRPCLogWriter.Write loses no gRPC line: a line of the form "LEVEL date  *)
(* time text" is logged, waiting or printed, with the text after the third *)
(* space (trimmed) at the level its prefix names (error for FATAL and     *)
(* unknown prefixes); any other line is logged as its raw bytes.          *)
GRPCLinesLogged ==
    LET logged == Range(pending) \cup {o.orig : o \in Printed}
        level(w) == CASE w = "INFO:"    -> "info"
                      [] w = "WARNING:" -> "warning"
                      [] OTHER          -> "error"
    IN \A k \in DOMAIN written :
         LET p == written[k] IN
         \E e \in logged :
            /\ e.from = k
            /\ IF Len(p) >= 4
               THEN /\ e.level = level(p[1])
                    /\ e.msg = [fmt |-> "text",
                                words |-> TrimSpace(SubSeq(p, 4, Len(p)))]
               ELSE e.msg = [fmt |-> "bytes", words |-> p]

(* Formatting an entry never brings the process down: no formatter call   *)
(* panics, however many times logrus formats the entry.                   *)
NoPanic == ~crashed

=============================================================================
