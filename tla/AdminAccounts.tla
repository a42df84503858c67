---------------------------- MODULE AdminAccounts ----------------------------
(***************************************************************************)
(* Roles and status of accounts: AdminUserDetailView.patch with            *)
(* _admin_update_guard and AdminUserUpdateSerializer.update, and           *)
(* WithdrawView with User.soft_delete.                                     *)
(*                                                                         *)
(* A patch loads the administrator and the target, checks what it loaded,  *)
(* counts the active administrators and saves the named columns; a         *)
(* withdrawal is one save.  Nothing is locked in between.                  *)
(***************************************************************************)
EXTENDS Naturals, FiniteSets

CONSTANTS
    Users,
    Handlers,   \* web server threads, each serving one request at a time
    NoRequest   \* the request of an idle thread

VARIABLES
    flags,      \* is_staff, is_superuser, is_active and is_deleted of each user
    at,         \* where each handler is
    req,        \* the patch it works on
    stale,      \* history: handlers whose check no longer describes the accounts
    late,       \* history: users withdrawn while a patch of them was at work
    events      \* history: what took the last active administrator away

vars == <<flags, at, req, stale, late, events>>

Flag   == {"staff", "superuser", "active", "deleted"}
Role   == {"keep", "admin", "member"}
Status == {"keep", "normal", "stopped"}
Patch  == [target : Users, role : Role, status : Status,
           was : SUBSET Flag]       \* the target as it was loaded
Pc     == {"idle", "count", "save"}

TypeOK ==
    /\ flags \in [Users -> SUBSET Flag]
    /\ \A u \in Users : "superuser" \in flags[u] => "staff" \in flags[u]
    /\ at \in [Handlers -> Pc]
    /\ req \in [Handlers -> Patch \cup {NoRequest}]
    /\ stale \subseteq Handlers
    /\ late \subseteq Users
    /\ events \subseteq {"stale save", "withdrawal"}

\* Users sign up as members; superusers are made by createsuperuser.
Accounts == {f \in [Users -> {{"active"}, {"active", "staff"}, {"active", "staff", "superuser"}}] :
                 \E u \in Users : "staff" \in f[u]}

Init ==
    /\ flags \in Accounts
    /\ at = [h \in Handlers |-> "idle"]
    /\ req = [h \in Handlers |-> NoRequest]
    /\ stale = {} /\ late = {} /\ events = {}

-----------------------------------------------------------------------------
IsAdmin(f) == f \cap {"staff", "superuser"} # {}

IsActiveAdmin(f) == IsAdmin(f) /\ "active" \in f /\ "deleted" \notin f

ActiveAdmins(all) == {u \in Users : IsActiveAdmin(all[u])}

Goto(h, pc) == at' = [at EXCEPT ![h] = pc]

End(h) == Goto(h, "idle") /\ req' = [req EXCEPT ![h] = NoRequest]

\* A plausible slip: only a change of the role is taken for a loss of access.
Removes_RoleOnly(f, role, status) == IsAdmin(f) /\ role = "member"

\* _admin_update_guard: removes_admin_access.
Removes(f, role, status) ==
    /\ IsAdmin(f)
    /\ \/ role = "member"
       \/ status = "stopped"
       \/ status = "keep" /\ "active" \notin f

Start(h, u, role, status) ==
    /\ at[h] = "idle"
    /\ Goto(h, IF Removes(flags[u], role, status) THEN "count" ELSE "save")
    /\ req' = [req EXCEPT ![h] =
           [target |-> u, role |-> role, status |-> status, was |-> flags[u]]]
    /\ UNCHANGED <<flags, stale, late, events>>

\* A plausible slip: withdrawn accounts are not filtered out.
Ask_Deleted(h, a, u, role, status) ==
    /\ {"staff", "active"} \subseteq flags[a]
    /\ a # u /\ (role # "keep" \/ status # "keep")
    /\ role # "keep" => "superuser" \in flags[a]
    /\ Start(h, u, role, status)

\* IsAdminUser, get_object_or_404 and the first two refusals of the guard: an
\* administrator keeps their own access, and only a superuser changes roles.
Ask(h, a, u, role, status) ==
    /\ {"staff", "active"} \subseteq flags[a]
    /\ "deleted" \notin flags[u]
    /\ role # "keep" \/ status # "keep"
    /\ ~(a = u /\ Removes(flags[u], role, status))
    /\ role # "keep" => "superuser" \in flags[a]
    /\ Start(h, u, role, status)

\* The third: the last active administrator keeps access.
Count(h) ==
    /\ at[h] = "count"
    /\ IF Cardinality(ActiveAdmins(flags)) <= 1
       THEN End(h)
       ELSE Goto(h, "save") /\ UNCHANGED req
    /\ stale' = stale \ {h}
    /\ UNCHANGED <<flags, late, events>>

\* Whoever decided on other administrators than there are now is stale.
Changed(new) ==
    /\ flags' = new
    /\ stale' = {h \in Handlers : /\ at'[h] # "idle"
                                  /\ h \in stale \/ ActiveAdmins(new) # ActiveAdmins(flags)}

\* A plausible slip: instance.save() without update_fields.
Save_WholeRow(h) ==
    LET r    == req[h]
        role == CASE r.role = "admin"  -> r.was \cup {"staff"}
                  [] r.role = "member" -> r.was \ {"staff", "superuser"}
                  [] OTHER             -> r.was
        new  == CASE r.status = "normal"  -> role \cup {"active"}
                  [] r.status = "stopped" -> role \ {"active"}
                  [] OTHER                -> role
    IN
    /\ at[h] = "save"
    /\ End(h)
    /\ Changed([flags EXCEPT ![r.target] = new])
    /\ UNCHANGED <<late, events>>

\* AdminUserUpdateSerializer.update: is_superuser is written only when it was
\* loaded as set, the other columns only when the patch names them.
Save(h) ==
    LET r == req[h]
        gained == (IF r.role = "admin" THEN {"staff"} ELSE {})
                      \cup (IF r.status = "normal" THEN {"active"} ELSE {})
        lost   == (IF r.role = "member" THEN {"staff"} \cup (r.was \cap {"superuser"}) ELSE {})
                      \cup (IF r.status = "stopped" THEN {"active"} ELSE {})
    IN
    /\ at[h] = "save"
    /\ End(h)
    /\ Changed([flags EXCEPT ![r.target] = (@ \cup gained) \ lost])
    /\ events' = IF h \in stale /\ ActiveAdmins(flags') = {}
                 THEN events \cup {"stale save"} ELSE events
    /\ UNCHANGED late

\* The database raises or the thread is killed before the save.
CutShort(h) ==
    /\ at[h] # "idle"
    /\ End(h)
    /\ stale' = stale \ {h}
    /\ UNCHANGED <<flags, late, events>>

\* soft_delete leaves is_staff and is_superuser alone.
Withdraw(u) ==
    /\ "active" \in flags[u] /\ "deleted" \notin flags[u]
    /\ UNCHANGED <<at, req>>
    /\ Changed([flags EXCEPT ![u] = (@ \ {"active"}) \cup {"deleted"}])
    /\ late' = IF \E h \in Handlers : at[h] # "idle" /\ req[h].target = u
               THEN late \cup {u} ELSE late
    /\ events' = IF ActiveAdmins(flags) = {u} THEN events \cup {"withdrawal"} ELSE events

Next ==
    \/ \E h \in Handlers :
         \/ \E a, u \in Users, role \in Role, status \in Status : Ask(h, a, u, role, status)
         \/ Count(h) \/ Save(h) \/ CutShort(h)
    \/ \E u \in Users : Withdraw(u)

Spec == Init /\ [][Next]_vars

-----------------------------------------------------------------------------
(* There is always an active administrator, unless the last one withdrew   *)
(* or a patch was saved after the accounts its guard had judged by changed. *)
LastAdminKept == ActiveAdmins(flags) = {} => events # {}

(* A withdrawn account is not active, unless a patch of it was at work     *)
(* when it was withdrawn.                                                  *)
WithdrawnInactive ==
    \A u \in Users : "deleted" \in flags[u] /\ "active" \in flags[u] => u \in late

(* Nobody gets rights back by a patch that is about something else: only a *)
(* promotion makes an administrator, nothing makes a superuser, and only   *)
(* "normal" activates, however stale the row a patch had loaded.           *)
RightsGranted ==
    [][\A u \in Users :
          LET gained == flags'[u] \ flags[u]
              Saving(h) == at[h] = "save" /\ at'[h] = "idle" /\ req[h].target = u IN
          /\ "superuser" \notin gained
          /\ "staff" \in gained => \E h \in Handlers : Saving(h) /\ req[h].role = "admin"
          /\ "active" \in gained => \E h \in Handlers : Saving(h) /\ req[h].status = "normal"]_vars
=============================================================================
