----------------------------- MODULE Credentials -----------------------------
(***************************************************************************)
(* API keys and staff (crates/lulan-api/src/auth.rs, staff.rs, the staff     *)
(* handlers of admin.rs).                                                   *)
(*                                                                         *)
(* An admin request is three statements on the pool, each committed by      *)
(* itself: the look at its credential, the change and the audit row.  Other  *)
(* requests run between them, and a handler can die or fail between them.    *)
(* The text of a new key is in the answer only.  Staff show tokens of the    *)
(* identity provider, which module ProviderKeys is about.                    *)
(***************************************************************************)
CONSTANTS Keys,        \* API keys
          BootKeys,    \* LULAN_BOOTSTRAP_ADMIN_KEY
          Subjects,    \* people known to the identity provider
          BootStaff,   \* LULAN_BOOTSTRAP_ADMIN_STAFF
          Requests

ASSUME CredentialsAssumption ==
  /\ BootKeys \subseteq Keys /\ BootStaff \subseteq Subjects
  /\ Keys \cap Subjects = {}

\* Roles by what they may do here: integration and validator keys, like ops and
\* support staff, change no credential.
KeyRoles   == {"operator_admin", "other"}
StaffRoles == {"admin", "other"}
States     == {"absent", "active", "inactive"}

VARIABLES key,         \* api_keys rows
          staff,       \* staff rows
          log,         \* audit_log: what was done to which key
          told,        \* keys whose text somebody has
          request      \* per request: its next statement

credentials_vars == <<key, staff, log, told, request>>

Idle  == [step |-> "idle"]
Loose == [step |-> "let in", op |-> "use"]

\* What an admin may ask for.
JobsAt(step) ==
  [step : {step}, op : {"create key"}, on : Keys \ BootKeys, role : KeyRoles]
    \cup [step : {step}, op : {"revoke key"}, on : Keys, role : {"any"}]
    \cup [step : {step}, op : {"enrol"}, on : Subjects, role : StaffRoles]
    \cup [step : {step}, op : {"revoke staff"}, on : Subjects, role : {"any"}]

Jobs == JobsAt("let in")
Done(job) == [job EXCEPT !.step = "done"]

Then(q, next) == request' = [request EXCEPT ![q] = next]

CredentialsTypeOK ==
  /\ key \in [Keys -> [state : States, role : KeyRoles]]
  /\ staff \in [Subjects -> [state : States, role : StaffRoles]]
  /\ log \subseteq {"create key", "revoke key"} \X Keys
  /\ told \subseteq Keys
  /\ request \in [Requests -> {Idle, Loose} \cup Jobs \cup JobsAt("done")]

CredentialsInit ==
  /\ key = [k \in Keys |-> [state |-> "absent", role |-> "operator_admin"]]
  /\ staff = [s \in Subjects |-> [state |-> "absent", role |-> "admin"]]
  /\ log = {}
  /\ told = BootKeys
  /\ request = [q \in Requests |-> Idle]

-----------------------------------------------------------------------------
(* Boot *)

\* main: bootstrap_admin_key and bootstrap_admin_staff upsert their rows.
Boot ==
  /\ key' = [k \in Keys |->
       IF k \in BootKeys THEN [key[k] EXCEPT !.state = "active"] ELSE key[k]]
  /\ staff' = [s \in Subjects |->
       IF s \in BootStaff THEN [state |-> "active", role |-> "admin"] ELSE staff[s]]
  /\ UNCHANGED <<log, told, request>>

-----------------------------------------------------------------------------
(* Who is let in *)

\* authenticate: the row of the key's hash, if active.
Known(k) == k \in told /\ key[k].state = "active"

\* resolve, of a token that verifies: an enrolled person.
Enrolled(s) == staff[s].state = "active"

\* A new key has an id nobody else has.
Unused(job) ==
  job.op = "create key" =>
    /\ key[job.on].state = "absent"
    /\ \A q \in Requests : request[q] # Idle => request[q] = Loose \/ request[q].on # job.on

\* AdminAuth with a key, ...
AdmitKey(q, k) ==
  /\ request[q] = Idle
  /\ Known(k) /\ key[k].role = "operator_admin"
  /\ \E job \in {j \in Jobs : Unused(j)} : Then(q, job)
  /\ UNCHANGED <<key, staff, log, told>>

\* ... or with a token of an admin.
AdmitStaff(q, s) ==
  /\ request[q] = Idle
  /\ Enrolled(s) /\ staff[s].role = "admin"
  /\ \E job \in {j \in Jobs : Unused(j)} : Then(q, job)
  /\ UNCHANGED <<key, staff, log, told>>

\* ApiKeyAuth, IntegrationAuth, DeviceAuth: a key for anything else.
AdmitUse(q, k) ==
  /\ request[q] = Idle
  /\ Known(k)
  /\ Then(q, Loose)
  /\ UNCHANGED <<key, staff, log, told>>

-----------------------------------------------------------------------------
(* create_key, revoke_key, enroll_staff, revoke_staff *)

\* INSERT INTO api_keys, under a new id.
CreateKey(q) ==
  LET job == request[q]
  IN  /\ job \in Jobs /\ job.op = "create key"
      /\ key' = [key EXCEPT ![job.on] = [state |-> "active", role |-> job.role]]
      /\ Then(q, Done(job))
      /\ UNCHANGED <<staff, log, told>>

\* The upsert of a person, who may have been revoked before.
EnrollStaff(q) ==
  LET job == request[q]
  IN  /\ job \in Jobs /\ job.op = "enrol"
      /\ staff' = [staff EXCEPT ![job.on] = [state |-> "active", role |-> job.role]]
      /\ Then(q, Done(job))
      /\ UNCHANGED <<key, log, told>>

\* active = false; a row that is not there is a 404.
RevokeKey(q) ==
  LET job == request[q]
  IN  /\ job \in Jobs /\ job.op = "revoke key"
      /\ IF key[job.on].state = "absent"
         THEN Then(q, Idle) /\ UNCHANGED key
         ELSE Then(q, Done(job)) /\ key' = [key EXCEPT ![job.on].state = "inactive"]
      /\ UNCHANGED <<staff, log, told>>

RevokeStaff(q) ==
  LET job == request[q]
  IN  /\ job \in Jobs /\ job.op = "revoke staff"
      /\ IF staff[job.on].state = "absent"
         THEN Then(q, Idle) /\ UNCHANGED staff
         ELSE Then(q, Done(job)) /\ staff' = [staff EXCEPT ![job.on].state = "inactive"]
      /\ UNCHANGED <<key, log, told>>

\* The audit row of a change to a key.
Row(job) == IF job.on \in Keys THEN {<<job.op, job.on>>} ELSE {}

AuditLater(q) ==                             \* mutant: an audit row that fails is only logged
  LET job == request[q]
  IN  /\ job.step = "done"
      /\ \E rows \in {{}, Row(job)} : log' = log \cup rows
      /\ told' = IF job.op = "create key" THEN told \cup {job.on} ELSE told
      /\ Then(q, Idle)
      /\ UNCHANGED <<key, staff>>

\* The audit row, and the answer; it may get lost.
Audit(q) ==
  LET job == request[q]
  IN  /\ job.step = "done"
      /\ log' = log \cup Row(job)
      /\ told' \in {told, IF job.op = "create key" THEN told \cup {job.on} ELSE told}
      /\ Then(q, Idle)
      /\ UNCHANGED <<key, staff>>

\* A statement fails, the process stops, or a request of another kind is through.
Leave(q) ==
  /\ request[q] # Idle
  /\ Then(q, Idle)
  /\ UNCHANGED <<key, staff, log, told>>

CredentialsNext ==
  \/ Boot
  \/ \E q \in Requests :
       \/ \E k \in Keys : AdmitKey(q, k) \/ AdmitUse(q, k)
       \/ \E s \in Subjects : AdmitStaff(q, s)
       \/ CreateKey(q) \/ RevokeKey(q) \/ EnrollStaff(q) \/ RevokeStaff(q)
       \/ Audit(q) \/ Leave(q)

CredentialsSpec == CredentialsInit /\ [][CredentialsNext]_credentials_vars

-----------------------------------------------------------------------------
(* Properties *)

\* An API key that opens a door is in the audit log, whatever handler died between
\* its change and its audit row; and not one that the log says was revoked, unless
\* it is the bootstrap key, which every boot makes active again (auth.rs:244, 310,
\* 350).
KeysLetInAreOnRecord ==
  [][\A q \in Requests, k \in Keys \ BootKeys :
       (AdmitKey(q, k) \/ AdmitUse(q, k)) =>
         <<"create key", k>> \in log /\ <<"revoke key", k>> \notin log]_credentials_vars
=============================================================================
