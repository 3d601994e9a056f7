--------------------------- MODULE SignedGrantCache ---------------------------
(***************************************************************************)
(* SignedApprovalCache (control_plane/approval_store.py): the file of       *)
(* signed grants that the operator's `approvals allow` appends to and a     *)
(* broker process looks grants up in.  Readers and writers take a file      *)
(* lock that dies with its holder, and a write replaces the file in one     *)
(* step; an append reads under one lock and writes under another.           *)
(* Verification trusts the keys its SignerTrustRegistry trusted when the    *)
(* verifier was built (control_plane/signer_trust.py).                      *)
(***************************************************************************)
EXTENDS Naturals, Sequences, SequencesExt

CONSTANTS
  Brokers,       \* processes that use the cache
  Grants,        \* signed grants
  GrantOf,       \* per grant: request, key, and whether its signature is genuine
  Keys,          \* signer key ids
  AllowDevelopment,
  NoOne,         \* nobody holds the lock, nothing was found
  MaxUses        \* bound on the commands and registrations

ASSUME CacheAssumption == MaxUses \in Nat /\ AllowDevelopment \in BOOLEAN

VARIABLES
  cache,     \* the cache file: [state, grants]
  holder,    \* who holds the lock file's lock
  place,     \* per process, where its command is
  command,   \* per process, the command
  existing,  \* per process, the grants it read
  registry,  \* SignerTrustRegistry: per key, none, production or development
  trusted,   \* per process, the keys its verifier was built with
  found,     \* per process, what its last look-up returned
  uses,      \* commands and registrations so far
  returned,  \* history: grants whose append returned
  mingled,   \* history: two appends were under way at once
  edited     \* history: the file was changed by something else

cacheVars == <<cache, holder, place, command, existing, registry, trusted,
               found, uses, returned, mingled, edited>>

Requests == {GrantOf[g].request : g \in Grants}
Appending(p) == place[p] # "idle" /\ command[p].verb = "append"

-----------------------------------------------------------------------------
\* is_trusted: an unknown key never, a development key only when allowed.
IsTrusted(k) ==
  \/ registry[k] = "production"
  \/ registry[k] = "development" /\ AllowDevelopment

\* A later registration of a key id replaces the earlier one.
Register(k, kind) ==
  /\ registry[k] # kind /\ uses < MaxUses
  /\ registry' = [registry EXCEPT ![k] = kind]
  /\ uses' = uses + 1
  /\ UNCHANGED <<cache, holder, place, command, existing, trusted, found, returned,
                 mingled, edited>>

Verifies_AnyKey(p, g, late) ==
  /\ GrantOf[g].genuine
  /\ GrantOf[g].request = command[p].request
  /\ g \notin late

\* ApprovalGrantVerifier.verify, for the context of the look-up, with the
\* grants in late past their expiry.
Verifies(p, g, late) ==
  /\ GrantOf[g].key \in trusted[p]
  /\ GrantOf[g].genuine
  /\ GrantOf[g].request = command[p].request
  /\ g \notin late

-----------------------------------------------------------------------------
(* The commands. *)

Begin(p, c, at) ==
  /\ place[p] = "idle" /\ uses < MaxUses
  /\ uses' = uses + 1
  /\ command' = [command EXCEPT ![p] = c]
  /\ place' = [place EXCEPT ![p] = at]

\* The command returns or raises; what it had read is gone.
End(p) ==
  /\ place' = [place EXCEPT ![p] = "idle"]
  /\ existing' = [existing EXCEPT ![p] = <<>>]

\* append_signed_grant: a cache that does not exist yet is not read.
BeginAppend(p, g) ==
  /\ GrantOf[g].genuine
  /\ Begin(p, [verb |-> "append", grant |-> g],
           IF cache.state = "absent" THEN "await_write" ELSE "await_read")
  /\ mingled' = (mingled \/ \E q \in Brokers : Appending(q))
  /\ UNCHANGED <<cache, holder, existing, registry, trusted, found, returned, edited>>

\* find_verified_grant, by a verifier built from the registry as it is now.
BeginFind(p, r) ==
  /\ Begin(p, [verb |-> "find", request |-> r],
           IF cache.state = "absent" THEN "checking" ELSE "await_read")
  /\ trusted' = [trusted EXCEPT ![p] = {k \in Keys : IsTrusted(k)}]
  /\ found' = [found EXCEPT ![p] = NoOne]
  /\ UNCHANGED <<cache, holder, existing, registry, returned, mingled, edited>>

\* flock(LOCK_EX) blocks until nobody holds the lock.
TakeLock(p) ==
  /\ place[p] \in {"await_read", "await_write"}
  /\ holder = NoOne
  /\ holder' = p
  /\ place' = [place EXCEPT ![p] = IF @ = "await_read" THEN "reading" ELSE "writing"]
  /\ UNCHANGED <<cache, command, existing, registry, trusted, found,
                 uses, returned, mingled, edited>>

\* read_signed_grants: a malformed cache makes an append raise, and a look-up
\* find nothing.
ReadGrants(p) ==
  /\ place[p] = "reading"
  /\ holder' = NoOne
  /\ \/ /\ cache.state = "ok"
        /\ existing' = [existing EXCEPT ![p] = cache.grants]
        /\ place' = [place EXCEPT ![p] =
                       IF command[p].verb = "append" THEN "await_write" ELSE "checking"]
     \/ /\ cache.state = "malformed"
        /\ IF command[p].verb = "append" THEN End(p)
           ELSE place' = [place EXCEPT ![p] = "checking"] /\ UNCHANGED existing
  /\ UNCHANGED <<cache, command, registry, trusted, found, uses, returned, mingled,
                 edited>>

\* The temporary file is written and synced; a failure removes it.
WriteTemp(p) ==
  /\ place[p] = "writing"
  /\ \/ place' = [place EXCEPT ![p] = "written"] /\ UNCHANGED <<holder, existing>>
     \/ End(p) /\ holder' = NoOne
  /\ UNCHANGED <<cache, command, registry, trusted, found, uses, returned, mingled,
                 edited>>

Replace_Alone(p) ==
  /\ place[p] = "written"
  /\ cache' = [state |-> "ok", grants |-> <<command[p].grant>>]
  /\ holder' = NoOne
  /\ End(p)
  /\ returned' = returned \cup {command[p].grant}
  /\ UNCHANGED <<command, registry, trusted, found, uses, mingled,
                 edited>>

\* os.replace, then the lock is released.
Replace(p) ==
  /\ place[p] = "written"
  /\ cache' = [state |-> "ok", grants |-> Append(existing[p], command[p].grant)]
  /\ holder' = NoOne
  /\ End(p)
  /\ returned' = returned \cup {command[p].grant}
  /\ UNCHANGED <<command, registry, trusted, found, uses, mingled,
                 edited>>

\* The first grant that verifies, or none.
Check(p) ==
  /\ place[p] = "checking"
  /\ \E late \in SUBSET Grants :
       LET good == {i \in DOMAIN existing[p] : Verifies(p, existing[p][i], late)} IN
       \/ good = {} /\ found' = [found EXCEPT ![p] = NoOne]
       \/ \E i \in good : /\ \A j \in good : i <= j
                          /\ found' = [found EXCEPT ![p] = existing[p][i]]
  /\ End(p)
  /\ UNCHANGED <<cache, holder, command, registry, trusted, uses,
                 returned, mingled, edited>>

CacheStep(p) ==
  TakeLock(p) \/ ReadGrants(p) \/ WriteTemp(p) \/ Replace(p) \/ Check(p)

-----------------------------------------------------------------------------
(* Faults. *)

Dies_KeepsLock(p) ==
  /\ place[p] # "idle"
  /\ End(p)
  /\ UNCHANGED <<cache, holder, command, registry, trusted, found, uses,
                 returned, mingled, edited>>

\* The process dies: its lock is freed, the cache file stays as it was.
Dies(p) ==
  /\ place[p] # "idle"
  /\ End(p)
  /\ holder' = IF holder = p THEN NoOne ELSE holder
  /\ UNCHANGED <<cache, command, registry, trusted, found,
                 uses, returned, mingled, edited>>

\* Something other than the program spoils the file, or writes a grant into it.
Edit ==
  /\ ~edited /\ edited' = TRUE
  /\ cache' \in {[state |-> "malformed", grants |-> <<>>]}
       \cup {[state |-> "ok", grants |-> Append(cache.grants, g)] : g \in Grants}
  /\ UNCHANGED <<holder, place, command, existing, registry, trusted, found, uses, returned, mingled>>

CacheInit ==
  /\ cache = [state |-> "absent", grants |-> <<>>]
  /\ holder = NoOne
  /\ place = [p \in Brokers |-> "idle"]
  /\ command = [p \in Brokers |-> NoOne]
  /\ existing = [p \in Brokers |-> <<>>]
  /\ returned = {}
  /\ registry = [k \in Keys |-> "none"]
  /\ trusted = [p \in Brokers |-> {}]
  /\ found = [p \in Brokers |-> NoOne]
  /\ uses = 0 /\ mingled = FALSE /\ edited = FALSE

CacheNext ==
  \/ \E k \in Keys, kind \in {"production", "development"} : Register(k, kind)
  \/ \E p \in Brokers :
       \/ \E g \in Grants : BeginAppend(p, g)
       \/ \E r \in Requests : BeginFind(p, r)
       \/ CacheStep(p) \/ Dies(p)
  \/ Edit

CacheSpec == CacheInit /\ [][CacheNext]_cacheVars

-----------------------------------------------------------------------------
(* Properties. *)

\* While appends do not mingle, a grant whose append returned stays in the file,
\* whoever reads it, dies or fails meanwhile (append_signed_grant, _atomic_write).
\* Two appends at once lose one: each writes what it read before the other.
AppendedStays ==
  ~mingled /\ ~edited => returned \subseteq ToSet(cache.grants)

\* A look-up returns only a grant with a genuine signature, for the request it
\* asks for, whose key its verifier trusted, even from an edited file
\* (find_verified_grant, SignerTrustRegistry.trusted_signers).
FoundIsVerified ==
  \A p \in Brokers : found[p] # NoOne /\ place[p] = "idle" /\ command[p].verb = "find" =>
    /\ GrantOf[found[p]].genuine
    /\ GrantOf[found[p]].request = command[p].request
    /\ GrantOf[found[p]].key \in trusted[p]

\* A command that waits for the lock gets on, whoever dies holding it (_locked).
CacheCommandsEnd == \A p \in Brokers : place[p] # "idle" ~> place[p] = "idle"
=============================================================================
