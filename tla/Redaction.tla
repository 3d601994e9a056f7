------------------------------- MODULE Redaction -------------------------------
(***************************************************************************)
(* The local redaction of provider results and audit records               *)
(* (redaction.py).  A nested value is a tree: a function from its places   *)
(* to kinds.  A place is the path to it, the keys of mappings and the      *)
(* indices of lists on the way down.  A leaf is a "plain" string, a        *)
(* "secret" one (it matches a secret pattern), "bytes", a flag ("on",      *)
(* "off"), or what redaction left in its place.  A key stands for its      *)
(* class: "note" for any plain key, "text" for a HID text key, "password"  *)
(* for a credential key, "raw_bytes" for a raw artifact, "event_id" for a  *)
(* structural key.                                                         *)
(***************************************************************************)
EXTENDS Integers, Sequences, SequencesExt

CONSTANTS
  Records,   \* the mappings redacted
  MaxPasses  \* bound on the passes over one record

ASSUME PassesAssumption == MaxPasses \in Nat

Strings == {"plain", "secret", "stripped", "[REDACTED]", "[REDACTED-BYTES]"}
NodeKinds == Strings \cup {"mapping", "list", "bytes", "on", "off"}
Indices == {"#1", "#2"}
\* A place is inside a list when its last step is an index, else in a mapping.
IsTree(tree) ==
  /\ DOMAIN tree \subseteq Seq(STRING)
  /\ <<>> \in DOMAIN tree /\ tree[<<>>] = "mapping"
  /\ \A p \in DOMAIN tree : tree[p] \in NodeKinds
  /\ \A p \in DOMAIN tree \ {<<>>} :
       /\ Front(p) \in DOMAIN tree
       /\ tree[Front(p)] = (IF Last(p) \in Indices THEN "list" ELSE "mapping")
ASSUME RecordsAssumption == \A tree \in Records : IsTree(tree)

VARIABLES
  original,  \* the mapping before any redaction
  record,    \* the mapping as it stands
  capture,   \* the full_capture argument
  reports    \* the paths each pass reported
redactionVars == <<original, record, capture, reports>>

CredentialKeys == {"password", "raw_bytes"}
\* redact_value's key when it is given none.
NoKey == "no-key"

-----------------------------------------------------------------------------
(***************************************************************************)
(* One call of redact_value, on one node.                                  *)
(***************************************************************************)
\* redact_hid_text: full capture keeps the text, but for the secrets in it.
HidText(kind, full) ==
  IF ~full THEN "[REDACTED]" ELSE IF kind = "secret" THEN "stripped" ELSE kind

\* The kind the node ends with.
KindAfter(kind, key, full) ==
  IF key = "redactions" /\ kind = "list" THEN "kept-list"
  ELSE IF key \in CredentialKeys THEN "[REDACTED]"
  ELSE IF key = "text" /\ kind \in Strings THEN HidText(kind, full)
  ELSE IF key # "event_id" /\ kind = "secret" THEN "[REDACTED]"
  ELSE IF kind = "bytes" THEN "[REDACTED-BYTES]"
  ELSE kind

\* RedactionResult.redacted of a leaf: hidden again counts as hidden.
Hides(kind, key, full) ==
  \/ key \in CredentialKeys
  \/ key = "text" /\ kind \in Strings /\ ~full
  \/ KindAfter(kind, key, full) # kind

\* _mapping_full_capture and explicit_full_capture_enabled: the mapping's own
\* posture decides when it has one.
HidCapture(path) == Append(path, "hid_capture")
NestsPosture(tree, path) ==
  HidCapture(path) \in DOMAIN tree /\ tree[HidCapture(path)] = "mapping"
TurnedOn(tree, path) ==
  Append(path, "full_capture") \in DOMAIN tree /\ tree[Append(path, "full_capture")] = "on"
HasPosture(tree, path) ==
  /\ tree[path] = "mapping"
  /\ NestsPosture(tree, path) \/ Append(path, "full_capture") \in DOMAIN tree
Posture(tree, path) ==
  IF NestsPosture(tree, path) THEN TurnedOn(tree, HidCapture(path))
  ELSE TurnedOn(tree, path)

-----------------------------------------------------------------------------
(***************************************************************************)
(* The calls of redact_value below it, one for each item: the key and the  *)
(* posture an item is judged by, and whether it is reached at all.         *)
(***************************************************************************)
KeyBelow_Lost(kind, key, k) == IF kind = "mapping" THEN k ELSE NoKey
\* The items of a list are judged by the key of the list.
KeyBelow(kind, key, k) == IF kind = "mapping" THEN k ELSE key

CaptureBelow(tree, path, inherited) ==
  IF HasPosture(tree, path) THEN Posture(tree, path) ELSE inherited

\* Below what is replaced nothing is left, below a list of redactions all is.
FateBelow(kind, call) ==
  LET after == KindAfter(kind, call.key, call.full) IN
  IF call.fate # "visited" THEN call.fate
  ELSE IF after = "kept-list" THEN "kept"
  ELSE IF after \in {"mapping", "list"} THEN "visited" ELSE "dropped"

\* What redact_value is called with at each place of a tree.
CallsOn(tree, full) ==
  LET call[p \in DOMAIN tree] ==
        IF p = <<>> THEN [key |-> NoKey, full |-> full, fate |-> "visited"]
        ELSE LET up == Front(p) IN
             [key |-> KeyBelow(tree[up], call[up].key, Last(p)),
              full |-> CaptureBelow(tree, up, call[up].full),
              fate |-> FateBelow(tree[up], call[up])]
  IN call

\* The tree that is left, and the places reported: those of a container are
\* those of its items.
KindLeft(kind, call) ==
  LET after == KindAfter(kind, call.key, call.full) IN
  IF call.fate = "kept" \/ after = "kept-list" THEN kind ELSE after
Redacted(tree, full) ==
  LET call == CallsOn(tree, full) IN
  [p \in {q \in DOMAIN tree : call[q].fate # "dropped"} |-> KindLeft(tree[p], call[p])]

Reported_Blurred(tree, full) ==
  LET call == CallsOn(tree, full) IN
  {Front(p) : p \in {q \in DOMAIN tree :
     /\ call[q].fate = "visited"
     /\ KindAfter(tree[q], call[q].key, call[q].full) \notin {"mapping", "list", "kept-list"}
     /\ Hides(tree[q], call[q].key, call[q].full)}}
Reported(tree, full) ==
  LET call == CallsOn(tree, full) IN
  {p \in DOMAIN tree :
     /\ call[p].fate = "visited"
     /\ KindAfter(tree[p], call[p].key, call[p].full) \notin {"mapping", "list", "kept-list"}
     /\ Hides(tree[p], call[p].key, call[p].full)}

-----------------------------------------------------------------------------
(***************************************************************************)
(* A record and the passes over it: a provider result is redacted, then    *)
(* the audit event that holds it, then what is exported of the log.        *)
(***************************************************************************)
RedactionInit ==
  /\ original \in Records /\ record = original
  /\ capture \in BOOLEAN
  /\ reports = <<>>

\* redact_mapping
RedactMapping ==
  /\ Len(reports) < MaxPasses
  /\ record' = Redacted(record, capture)
  /\ reports' = Append(reports, Reported(record, capture))
  /\ UNCHANGED <<original, capture>>

RedactionSpec == RedactionInit /\ [][RedactMapping]_redactionVars

-----------------------------------------------------------------------------
(***************************************************************************)
(* Properties.                                                             *)
(***************************************************************************)
Deepest(ns) == CHOOSE n \in ns : \A m \in ns : m <= n
\* The key a place is filed under, past the lists it is in.
FiledUnder(path) ==
  LET named == {n \in DOMAIN path : path[n] \notin Indices} IN
  IF named = {} THEN NoKey ELSE path[Deepest(named)]
\* The posture that reaches a place is that of the innermost mapping around it
\* that has one.
CapturedAt(tree, full, path) ==
  LET around == {n \in 0..(Len(path) - 1) : HasPosture(tree, SubSeq(path, 1, n))} IN
  IF around = {} THEN full ELSE Posture(tree, SubSeq(path, 1, Deepest(around)))

\* docs/audit-store.md:128: once redacted, no bytes and no secret are left
\* anywhere in the record, however deep and in whatever mix of lists and
\* mappings, but for structural ids and the lists of redactions; and no HID
\* text either, unless the posture nearest to it opts in to full capture.
NoSecretLeft ==
  reports # <<>> =>
    \A p \in DOMAIN record :
      "redactions" \notin Range(p) =>
        /\ record[p] # "bytes"
        /\ record[p] = "secret" => FiledUnder(p) = "event_id"
        /\ record[p] = "plain" /\ FiledUnder(p) = "text" => CapturedAt(record, capture, p)

\* The report of the first pass names exactly the places that changed, and
\* those that said [REDACTED] before it; and a later pass, over a record that
\* was redacted before, finds nothing that the first did not report.
ReportIsExact ==
  /\ Len(reports) = 1 =>
       LET both == DOMAIN original \cap DOMAIN record
           changed == {p \in both : record[p] # original[p]}
       IN /\ changed \subseteq reports[1]
          /\ \A p \in reports[1] : p \in changed \/ (p \in both /\ original[p] = "[REDACTED]")
  /\ \A i \in DOMAIN reports : reports[i] \subseteq reports[1]
=============================================================================
