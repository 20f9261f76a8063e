---------------------------- MODULE Credentials ----------------------------
(***************************************************************************)
(* The administrator's credential: how a first start makes one and hands   *)
(* it over, how a start that was interrupted is resumed or recovered, and  *)
(* how logins and password changes that overlap leave the sessions.        *)
(*                                                                         *)
(* A hash stands for the password it was made from.  Several starts may    *)
(* share one data directory, at once or one after another; each may fail   *)
(* or die at any step.  Password changes run one at a time, under          *)
(* API.configWrites; logins do not take it.                                *)
(***************************************************************************)
EXTENDS Naturals

CONSTANTS
    Starters,       \* starts of the daemon
    Browsers,
    Passwords,
    Unset,          \* no password: no hash, no file
    Partial,        \* the content of a file that is not whole
    MaxRevision     \* bound on the credential's revisions

ASSUME CredentialAssumption ==
    /\ Unset \notin Passwords /\ Partial \notin Passwords \cup {Unset}
    /\ MaxRevision \in Nat \ {0}

VARIABLES
    credential,    \* admin_auth_state and the hash in settings
    file,          \* initial-password.txt
    known,         \* the passwords somebody was given
    starter,       \* where each start is in EnsureAdminPassword
    sessions,      \* rows: who, at which revision, by which password
    login,         \* what each browser's login has verified
    change         \* what the password change under way has verified

credentialVars == <<credential, file, known, starter, sessions, login, change>>

NoProof == [revision |-> 0, password |-> Unset]
Credential(state, source, revision, password) ==
    [state |-> state, source |-> source, revision |-> revision, hash |-> password]

\* applySchemaAndAdminAuth: an empty database may bootstrap, one of an older
\* release is taken over with its hash, if that is valid.
CredentialInit ==
    /\ credential \in {Credential("bootstrap_pending", "", 0, Unset),
                       Credential("recovery_required", "legacy", 0, Unset)}
                    \cup {Credential("active", "legacy", 0, p) : p \in Passwords}
    /\ file = Unset
    /\ known = {credential.hash} \ {Unset}
    /\ starter = [s \in Starters |-> [pc |-> "off", password |-> Unset]]
    /\ sessions = {}
    /\ login = [b \in Browsers |-> NoProof]
    /\ change = NoProof

Active == credential.state = "active"
BootstrapPending == credential.state = "bootstrap_pending"
Empty == BootstrapPending /\ credential.hash = Unset
StarterAt(s, pc, p) == starter' = [starter EXCEPT ![s] = [pc |-> pc, password |-> p]]
-----------------------------------------------------------------------------
(* EnsureAdminPassword *)

\* A start looks at what is stored, and only if that is nothing at what is
\* configured.
Consider(s) ==
    /\ starter[s].pc = "off"
    /\ \/ Active /\ StarterAt(s, "serving", Unset) /\ UNCHANGED known
       \/ /\ ~Active /\ ~BootstrapPending
          /\ StarterAt(s, "failed", Unset) /\ UNCHANGED known
       \/ /\ BootstrapPending /\ credential.hash # Unset
          /\ StarterAt(s, "resuming", credential.hash) /\ UNCHANGED known
       \/ /\ Empty
          /\ \E p \in Passwords : StarterAt(s, "configuring", p) /\ known' = known \cup {p}
       \/ /\ Empty
          /\ \E p \in Passwords \ known : StarterAt(s, "generating", p)
          /\ UNCHANGED known
    /\ UNCHANGED <<credential, file, sessions, login, change>>

\* InitializeAdminCredential: the first to insert a hash wins.  A generated one
\* is not active until its password has been delivered.
Initialize(s) ==
    /\ starter[s].pc \in {"configuring", "generating"}
    /\ LET p == starter[s].password IN
       \/ /\ Empty /\ starter[s].pc = "configuring"
          /\ credential' = Credential("active", "configured", 1, p) /\ sessions' = {}
          /\ StarterAt(s, "serving", Unset)
       \/ /\ Empty /\ starter[s].pc = "generating"
          /\ credential' = Credential("bootstrap_pending", "generated", 0, p) /\ sessions' = {}
          /\ StarterAt(s, "creating", p)
       \/ /\ ~Empty
          /\ StarterAt(s, "losing", Unset)
          /\ UNCHANGED <<credential, sessions>>
    /\ UNCHANGED <<file, known, login, change>>

\* The loser serves the winner's credential if it is active by then.
Lose(s) ==
    /\ starter[s].pc = "losing"
    /\ StarterAt(s, IF Active THEN "serving" ELSE "failed", Unset)
    /\ UNCHANGED <<credential, file, known, sessions, login, change>>

\* writeInitialPassword never replaces a file ...
CreateFile(s) ==
    /\ starter[s].pc = "creating"
    /\ IF file = Unset THEN file' = Partial /\ StarterAt(s, "filling", starter[s].password)
       ELSE StarterAt(s, "failed", Unset) /\ UNCHANGED file
    /\ UNCHANGED <<credential, known, sessions, login, change>>

\* ... and is done once it and its directory are on disk.
FillFile(s) ==
    /\ starter[s].pc = "filling"
    /\ file' = starter[s].password
    /\ known' = known \cup {starter[s].password}
    /\ \/ StarterAt(s, "activating", starter[s].password)
       \/ StarterAt(s, "failed", Unset)
    /\ UNCHANGED <<credential, sessions, login, change>>

\* readInitialPassword: only the stored hash's own password, whole, resumes.
FaultyResume(s) ==
    /\ starter[s].pc = "resuming"
    /\ IF file # Unset THEN StarterAt(s, "activating", starter[s].password)
       ELSE StarterAt(s, "failed", Unset)
    /\ UNCHANGED <<credential, file, known, sessions, login, change>>

Resume(s) ==
    /\ starter[s].pc = "resuming"
    /\ IF file = starter[s].password THEN StarterAt(s, "activating", starter[s].password)
       ELSE StarterAt(s, "failed", Unset)
    /\ UNCHANGED <<credential, file, known, sessions, login, change>>

\* ActivateGeneratedAdminCredential, for the hash that was delivered.
Awaits(p) == BootstrapPending /\ credential.source = "generated" /\ credential.hash = p

Activate(s) ==
    /\ starter[s].pc = "activating"
    /\ IF Awaits(starter[s].password)
         THEN /\ credential' = [credential EXCEPT !.state = "active", !.revision = 1]
              /\ sessions' = {}
              /\ StarterAt(s, "serving", Unset)
         ELSE StarterAt(s, "failed", Unset) /\ UNCHANGED <<credential, sessions>>
    /\ UNCHANGED <<file, known, login, change>>

\* Any step may fail, and the process die, with the requests it was serving.
ServedBy(others) == \E s \in others : starter[s].pc = "serving"

Stop(s) ==
    /\ starter[s].pc \notin {"off", "failed"}
    /\ StarterAt(s, "failed", Unset)
    /\ IF ServedBy(Starters \ {s}) THEN UNCHANGED <<login, change>>
       ELSE login' = [b \in Browsers |-> NoProof] /\ change' = NoProof
    /\ UNCHANGED <<credential, file, known, sessions>>

\* recover-admin: whoever has the delivered password activates the pending hash.
Recover(p) ==
    /\ p \in known /\ Awaits(p)
    /\ credential' = [credential EXCEPT !.state = "active", !.revision = 1]
    /\ sessions' = {}
    /\ UNCHANGED <<file, known, starter, login, change>>

\* The operator deletes the file, once read or left behind by a failed start.
DeleteFile ==
    /\ file # Unset /\ \A s \in Starters : starter[s].pc # "filling"
    /\ file' = Unset
    /\ UNCHANGED <<credential, known, starter, sessions, login, change>>
-----------------------------------------------------------------------------
(* Login and SetPassword *)

Served == ServedBy(Starters)
Proof == [revision |-> credential.revision, password |-> credential.hash]

\* verifyPassword: the password is checked against the credential that is read.
VerifyLogin(b) ==
    /\ Served /\ Active /\ login[b] = NoProof
    /\ login' = [login EXCEPT ![b] = Proof]
    /\ UNCHANGED <<credential, file, known, starter, sessions, change>>

\* A session for whatever credential is there by now.
FaultyCreateSession(b) ==
    /\ login[b] # NoProof
    /\ login' = [login EXCEPT ![b] = NoProof]
    /\ sessions' = IF Active
         THEN sessions \cup {[browser |-> b, revision |-> credential.revision,
                              password |-> login[b].password]}
         ELSE sessions
    /\ UNCHANGED <<credential, file, known, starter, change>>

\* CreateSessionAtRevision: bound to the revision that was verified.
CreateSession(b) ==
    /\ login[b] # NoProof
    /\ login' = [login EXCEPT ![b] = NoProof]
    /\ sessions' = IF Active /\ credential.revision = login[b].revision
         THEN sessions \cup {[browser |-> b, revision |-> credential.revision,
                              password |-> login[b].password]}
         ELSE sessions
    /\ UNCHANGED <<credential, file, known, starter, change>>

\* A login is given up, or its write fails.
AbandonLogin(b) ==
    /\ login[b] # NoProof
    /\ login' = [login EXCEPT ![b] = NoProof]
    /\ UNCHANGED <<credential, file, known, starter, sessions, change>>

\* Logout, expiry.
EndSession ==
    /\ \E s \in sessions : sessions' = sessions \ {s}
    /\ UNCHANGED <<credential, file, known, starter, login, change>>

VerifyChange ==
    /\ Served /\ Active /\ change = NoProof
    /\ change' = Proof
    /\ UNCHANGED <<credential, file, known, starter, sessions, login>>

\* ReplaceAdminCredential: the hash, the revision and every session go in one
\* transaction, or nothing does.
ReplaceCredential(next) ==
    /\ change # NoProof
    /\ change' = NoProof
    /\ \/ /\ Active /\ Proof = change /\ credential.revision < MaxRevision
          /\ credential' = [credential EXCEPT !.hash = next, !.revision = @ + 1]
          /\ known' = known \cup {next}
          /\ sessions' = {}
       \/ UNCHANGED <<credential, known, sessions>>
    /\ UNCHANGED <<file, starter, login>>

CredentialNext ==
    \/ \E s \in Starters :
          \/ Consider(s) \/ Initialize(s) \/ Lose(s) \/ CreateFile(s) \/ FillFile(s)
          \/ Resume(s) \/ Activate(s) \/ Stop(s)
    \/ \E p \in Passwords : Recover(p) \/ ReplaceCredential(p)
    \/ DeleteFile
    \/ \E b \in Browsers : VerifyLogin(b) \/ CreateSession(b) \/ AbandonLogin(b)
    \/ EndSession \/ VerifyChange

CredentialSpec == CredentialInit /\ [][CredentialNext]_credentialVars
-----------------------------------------------------------------------------
CredentialStates == [state : {"bootstrap_pending", "active", "recovery_required"},
                 source : {"", "legacy", "configured", "generated"},
                 revision : 0..MaxRevision, hash : Passwords \cup {Unset}]
Stages == {"off", "configuring", "generating", "losing", "creating", "filling",
           "resuming", "activating", "serving", "failed"}
StarterStates == [pc : Stages, password : Passwords \cup {Unset}]
SessionRows == [browser : Browsers, revision : 0..MaxRevision, password : Passwords]
Proofs == [revision : 0..MaxRevision, password : Passwords] \cup {NoProof}

\* Every variable holds a value of its kind, and an active credential a hash.
CredentialTypeOK ==
    /\ credential \in CredentialStates
    /\ Active => credential.hash # Unset
    /\ file \in Passwords \cup {Unset, Partial}
    /\ known \subseteq Passwords
    /\ starter \in [Starters -> StarterStates]
    /\ sessions \subseteq SessionRows
    /\ login \in [Browsers -> Proofs]
    /\ change \in Proofs

\* A session that LookupSession accepts was opened with the password in force:
\* a change of password signs everybody out, also who was logging in meanwhile.
SessionsProveThePassword ==
    \A s \in sessions :
        Active /\ s.revision = credential.revision => s.password = credential.hash

\* No credential becomes active whose password was given to nobody, wherever the
\* first start was interrupted and whoever resumed it.
ActiveIsDelivered == Active => credential.hash \in known
=============================================================================
