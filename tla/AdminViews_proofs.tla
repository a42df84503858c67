------------------------- MODULE AdminViews_proofs -------------------------
(***************************************************************************)
(* Proofs about the administrators' views of an account and the lists of   *)
(* its user: AdminAccounts, for any set of users, in whatever roles they   *)
(* start, and any number of server threads; and HistoryPages, for any page *)
(* sizes, any MAX_HISTORY_PAGE and timelines of any length.                *)
(***************************************************************************)
EXTENDS AdminAccounts, PagedLists, FiniteSetTheorems, SequenceTheorems, TLAPS

Pages == INSTANCE HistoryPages

Handle(h) ==
    \/ \E a, u \in Users, role \in Role, status \in Status : Ask(h, a, u, role, status)
    \/ Count(h) \/ Save(h) \/ CutShort(h)

-----------------------------------------------------------------------------
(* The inductive invariant.  LastAdminKept is kept by every step only      *)
(* together with what a patch relies on when it is saved: as long as its   *)
(* check is not stale, either its target is not the only active            *)
(* administrator, or it takes no access away.                              *)

HandlerInv(h) ==
    /\ at[h] # "idle" =>
         /\ req[h] \in Patch
         /\ "superuser" \in flags[req[h].target] => "superuser" \in req[h].was
         /\ "deleted" \in flags[req[h].target] => req[h].target \in late
    /\ at[h] = "save" /\ h \notin stale =>
         \/ ActiveAdmins(flags) # {req[h].target}
         \/ req[h].role # "member" /\ req[h].status # "stopped"

IInv == /\ TypeOK
        /\ \A h \in Handlers : HandlerInv(h)
        /\ LastAdminKept
        /\ WithdrawnInactive

\* What a save adds to the target's flags and takes from them.
Gained(r) == (IF r.role = "admin" THEN {"staff"} ELSE {})
                 \cup (IF r.status = "normal" THEN {"active"} ELSE {})
Lost(r)   == (IF r.role = "member" THEN {"staff"} \cup (r.was \cap {"superuser"}) ELSE {})
                 \cup (IF r.status = "stopped" THEN {"active"} ELSE {})

(* A save is one write of the target's flags.                              *)
LEMMA SaveWrites ==
    ASSUME IInv, NEW h \in Handlers, Save(h)
    PROVE  /\ at[h] = "save" /\ End(h)
           /\ req[h] \in Patch /\ req[h].target \in Users /\ req[h].was \subseteq Flag
           /\ flags' = [flags EXCEPT ![req[h].target] =
                            (flags[req[h].target] \cup Gained(req[h])) \ Lost(req[h])]
           /\ Changed(flags')
           /\ UNCHANGED late
           /\ events' = IF h \in stale /\ ActiveAdmins(flags') = {}
                        THEN events \cup {"stale save"} ELSE events
           /\ Gained(req[h]) \subseteq {"staff", "active"}
           /\ Gained(req[h]) \cap Lost(req[h]) = {}
<1>1. at[h] = "save" /\ End(h) /\ UNCHANGED late
  BY DEF Save
<1>2. req[h] \in Patch
  BY <1>1 DEF IInv, HandlerInv
<1>3. /\ flags' = [flags EXCEPT ![req[h].target] =
                       (flags[req[h].target] \cup Gained(req[h])) \ Lost(req[h])]
      /\ Changed(flags')
      /\ events' = IF h \in stale /\ ActiveAdmins(flags') = {}
                   THEN events \cup {"stale save"} ELSE events
  BY DEF Save, Changed, Gained, Lost
<1>4. Gained(req[h]) \subseteq {"staff", "active"} /\ Gained(req[h]) \cap Lost(req[h]) = {}
  BY DEF Gained, Lost
<1> QED BY <1>1, <1>2, <1>3, <1>4 DEF Patch

(* A save ends the request.                                                *)
LEMMA SaveEnds ==
    ASSUME IInv, NEW h \in Handlers, Save(h)
    PROVE  at[h] = "save" /\ at'[h] = "idle"
<1>1. at \in [Handlers -> Pc]
  BY DEF IInv, TypeOK
<1>2. at[h] = "save" /\ at' = [at EXCEPT ![h] = "idle"]
  BY SaveWrites DEF End, Goto
<1> QED BY <1>1, <1>2

(* What a thread's step does to the threads.                               *)
LEMMA HandlerMoves ==
    ASSUME IInv, NEW h \in Handlers, Handle(h)
    PROVE  /\ at' \in [Handlers -> Pc]
           /\ req' \in [Handlers -> Patch \cup {NoRequest}]
           /\ \A g \in Handlers \ {h} : at'[g] = at[g] /\ req'[g] = req[g]
           /\ at'[h] # "idle" => req'[h] \in Patch
           /\ UNCHANGED late
<1>0. at \in [Handlers -> Pc] /\ req \in [Handlers -> Patch \cup {NoRequest}]
  BY DEF IInv, TypeOK
<1> DEFINE Goal == /\ at' \in [Handlers -> Pc]
                   /\ req' \in [Handlers -> Patch \cup {NoRequest}]
                   /\ \A g \in Handlers \ {h} : at'[g] = at[g] /\ req'[g] = req[g]
                   /\ at'[h] # "idle" => req'[h] \in Patch
<1>1. UNCHANGED late
  BY DEF Handle, Ask, Start, Count, Save, CutShort
<1> SUFFICES Goal
  BY <1>1
<1>2. ASSUME NEW a \in Users, NEW u \in Users, NEW role \in Role, NEW status \in Status,
             Ask(h, a, u, role, status)
      PROVE  Goal
  <2>1. [target |-> u, role |-> role, status |-> status, was |-> flags[u]] \in Patch
    BY DEF IInv, TypeOK, Patch
  <2>2. PICK pc \in Pc : Goto(h, pc)
    BY <1>2 DEF Ask, Start, Pc
  <2> QED BY <1>0, <1>2, <2>1, <2>2 DEF Ask, Start, Goto
<1>3. ASSUME End(h)
      PROVE  Goal
  BY <1>0, <1>3 DEF End, Goto, Pc
<1>4. ASSUME Count(h), ~End(h)
      PROVE  Goal
  <2>1. Goto(h, "save") /\ UNCHANGED req /\ at[h] = "count"
    BY <1>4 DEF Count
  <2>2. req[h] \in Patch
    BY <2>1 DEF IInv, HandlerInv
  <2> QED BY <1>0, <2>1, <2>2 DEF Goto, Pc
<1> QED BY <1>2, <1>3, <1>4 DEF Handle, Save, CutShort

(* Nothing but a save or a withdrawal changes an account, and neither      *)
(* makes a superuser or brings a withdrawn account back.                   *)
LEMMA FlagsStep ==
    ASSUME IInv, Next, NEW u \in Users
    PROVE  /\ flags' \in [Users -> SUBSET Flag]
           /\ "superuser" \in flags'[u] => "superuser" \in flags[u]
           /\ "superuser" \in flags'[u] => "staff" \in flags'[u]
           /\ "deleted" \in flags[u] <=> "deleted" \in flags'[u] /\ ~Withdraw(u)
           /\ "staff" \in flags'[u] \ flags[u] =>
                 \E h \in Handlers : Save(h) /\ req[h].target = u /\ req[h].role = "admin"
           /\ "active" \in flags'[u] \ flags[u] =>
                 \E h \in Handlers : Save(h) /\ req[h].target = u /\ req[h].status = "normal"
<1>0. /\ flags \in [Users -> SUBSET Flag]
      /\ "superuser" \in flags[u] => "staff" \in flags[u]
  BY DEF IInv, TypeOK
<1>1. CASE \E h \in Handlers : Save(h)
  <2>1. PICK h \in Handlers : Save(h)
    BY <1>1
  <2> DEFINE t == req[h].target
             r == req[h]
  <2>2. /\ at[h] = "save" /\ t \in Users
        /\ flags' = [flags EXCEPT ![t] = (flags[t] \cup Gained(r)) \ Lost(r)]
        /\ Gained(r) \subseteq {"staff", "active"} /\ Gained(r) \cap Lost(r) = {}
    BY <2>1, SaveWrites
  <2>3. ~Withdraw(u)
    <3>1. at'[h] # at[h]
      BY <2>1, SaveEnds
    <3> QED BY <3>1 DEF Withdraw
  <2>4. flags' \in [Users -> SUBSET Flag]
    BY <1>0, <2>2 DEF Flag
  <2>5. CASE u # t
    BY <1>0, <2>2, <2>3, <2>4, <2>5
  <2>6. CASE u = t
    <3>1. flags'[u] = (flags[u] \cup Gained(r)) \ Lost(r)
      BY <1>0, <2>2, <2>6
    <3>2. "superuser" \in flags[u] => "superuser" \in r.was
      BY <2>2, <2>6 DEF IInv, HandlerInv
    <3>3. "staff" \in Lost(r) => r.role = "member"
      BY DEF Lost
    <3>4. "superuser" \in flags'[u] => "staff" \in flags'[u] /\ "superuser" \in flags[u]
      <4>1. "superuser" \in flags'[u] => "superuser" \in flags[u] /\ "superuser" \notin Lost(r)
        BY <2>2, <3>1
      <4>2. "superuser" \in r.was /\ r.role = "member" => "superuser" \in Lost(r)
        BY DEF Lost
      <4>3. "superuser" \in flags'[u] => "staff" \notin Lost(r)
        BY <3>2, <3>3, <4>1, <4>2
      <4> QED BY <1>0, <3>1, <4>1, <4>3
    <3>5. "deleted" \in flags'[u] <=> "deleted" \in flags[u]
      BY <2>2, <3>1 DEF Lost
    <3>6. /\ "staff" \in Gained(r) => r.role = "admin"
          /\ "active" \in Gained(r) => r.status = "normal"
      BY DEF Gained
    <3> QED BY <2>1, <2>3, <2>4, <2>6, <3>1, <3>4, <3>5, <3>6
  <2> QED BY <2>5, <2>6
<1>2. CASE \E v \in Users : Withdraw(v)
  <2>1. PICK v \in Users : Withdraw(v)
    BY <1>2
  <2>2. /\ flags' = [flags EXCEPT ![v] = (flags[v] \ {"active"}) \cup {"deleted"}]
        /\ "deleted" \notin flags[v] /\ "active" \in flags[v]
    BY <2>1 DEF Withdraw, Changed
  <2>3. flags' \in [Users -> SUBSET Flag]
    BY <1>0, <2>2 DEF Flag
  <2>4. CASE u = v
    BY <1>0, <2>1, <2>2, <2>3, <2>4
  <2>5. CASE u # v
    <3>1. flags'[u] = flags[u]
      BY <1>0, <2>2, <2>5
    <3>2. ~Withdraw(u)
      <4>1. SUFFICES ASSUME Withdraw(u) PROVE FALSE
        OBVIOUS
      <4>2. flags'[u] = (flags[u] \ {"active"}) \cup {"deleted"} /\ "active" \in flags[u]
        BY <1>0, <4>1 DEF Withdraw, Changed
      <4> QED BY <3>1, <4>2
    <3> QED BY <1>0, <2>3, <3>1, <3>2
  <2> QED BY <2>4, <2>5
<1>3. CASE UNCHANGED flags
  <2>1. ~Withdraw(u)
    <3>1. SUFFICES ASSUME Withdraw(u) PROVE FALSE
      OBVIOUS
    <3>2. flags'[u] = (flags[u] \ {"active"}) \cup {"deleted"} /\ "active" \in flags[u]
      BY <1>0, <3>1 DEF Withdraw, Changed
    <3> QED BY <1>3, <3>2
  <2> QED BY <1>0, <1>3, <2>1
<1> QED BY <1>1, <1>2, <1>3 DEF Next, Ask, Start, Count, CutShort

(* A thread that a step leaves alone.                                      *)
LEMMA HandlerFrame ==
    ASSUME IInv, Next, NEW g \in Handlers, at'[g] = at[g], req'[g] = req[g],
           ActiveAdmins(flags') = ActiveAdmins(flags) \/ at[g] = "idle" \/ g \in stale',
           g \notin stale' /\ at[g] = "save" => g \notin stale,
           \A u \in Users : Withdraw(u) /\ at[g] # "idle" /\ req[g].target = u => u \in late',
           late \subseteq late'
    PROVE  HandlerInv(g)'
<1>1. CASE at[g] = "idle"
  BY <1>1 DEF HandlerInv
<1>2. CASE at[g] # "idle"
  <2>1. /\ req[g] \in Patch /\ req[g].target \in Users
        /\ "superuser" \in flags[req[g].target] => "superuser" \in req[g].was
        /\ "deleted" \in flags[req[g].target] => req[g].target \in late
    BY <1>2 DEF IInv, HandlerInv, Patch
  <2>2. "superuser" \in flags'[req[g].target] => "superuser" \in req[g].was
    BY <2>1, FlagsStep
  <2>3. "deleted" \in flags'[req[g].target] => req[g].target \in late'
    BY <1>2, <2>1, FlagsStep
  <2>4. at[g] = "save" /\ g \notin stale' =>
           \/ ActiveAdmins(flags') # {req[g].target}
           \/ req[g].role # "member" /\ req[g].status # "stopped"
    BY <1>2 DEF IInv, HandlerInv
  <2> QED BY <2>1, <2>2, <2>3, <2>4 DEF HandlerInv
<1> QED BY <1>1, <1>2

(* What the save of a patch whose check still holds leaves: an active      *)
(* administrator, if there was one.                                        *)
LEMMA SaveKeepsAdmin ==
    ASSUME IInv, NEW h \in Handlers, Save(h), h \notin stale, ActiveAdmins(flags) # {}
    PROVE  ActiveAdmins(flags') # {}
<1> DEFINE r == req[h]
           t == r.target
<1>0. /\ at[h] = "save" /\ t \in Users
      /\ flags' = [flags EXCEPT ![t] = (flags[t] \cup Gained(r)) \ Lost(r)]
      /\ flags \in [Users -> SUBSET Flag]
      /\ Gained(r) \subseteq {"staff", "active"}
  BY SaveWrites DEF IInv, TypeOK
<1>1. \/ ActiveAdmins(flags) # {t}
      \/ r.role # "member" /\ r.status # "stopped"
  BY <1>0 DEF IInv, HandlerInv
<1>2. CASE ActiveAdmins(flags) # {t}
  <2>1. PICK u \in ActiveAdmins(flags) : u # t
    BY <1>2
  <2>2. flags'[u] = flags[u] /\ u \in Users
    BY <1>0, <2>1 DEF ActiveAdmins
  <2> QED BY <2>1, <2>2 DEF ActiveAdmins
<1>3. CASE r.role # "member" /\ r.status # "stopped"
  <2>1. Lost(r) = {}
    BY <1>3 DEF Lost
  <2>2. PICK u \in Users : IsActiveAdmin(flags[u])
    BY DEF ActiveAdmins
  <2>3. flags[u] \subseteq flags'[u] /\ flags'[u] \subseteq flags[u] \cup {"staff", "active"}
    BY <1>0, <2>1
  <2>4. IsActiveAdmin(flags'[u])
    BY <2>2, <2>3 DEF IsActiveAdmin, IsAdmin
  <2> QED BY <2>4 DEF ActiveAdmins
<1> QED BY <1>1, <1>2, <1>3

(* What the histories record is never taken back.                          *)
LEMMA HistoriesGrow ==
    ASSUME Next
    PROVE  /\ late \subseteq late' /\ late' \subseteq late \cup Users
           /\ events \subseteq events' /\ events' \subseteq events \cup {"stale save", "withdrawal"}
<1>1. ASSUME NEW h \in Handlers, NEW a \in Users, NEW u \in Users,
             NEW role \in Role, NEW status \in Status, Ask(h, a, u, role, status)
      PROVE  UNCHANGED <<late, events>>
  BY <1>1 DEF Ask, Start
<1>2. ASSUME NEW h \in Handlers, Count(h) \/ CutShort(h)
      PROVE  UNCHANGED <<late, events>>
  BY <1>2 DEF Count, CutShort
<1>3. ASSUME NEW h \in Handlers, Save(h)
      PROVE  /\ UNCHANGED late
             /\ events' = events \/ events' = events \cup {"stale save"}
  BY <1>3 DEF Save
<1>4. ASSUME NEW u \in Users, Withdraw(u)
      PROVE  /\ late' = late \/ late' = late \cup {u}
             /\ events' = events \/ events' = events \cup {"withdrawal"}
  BY <1>4 DEF Withdraw
<1> QED BY <1>1, <1>2, <1>3, <1>4 DEF Next

(* Every request and every administrative act keeps it.                    *)
LEMMA InvStep == IInv /\ [Next]_vars => IInv'
<1> SUFFICES ASSUME IInv, [Next]_vars PROVE IInv'
  OBVIOUS
<1>1. CASE UNCHANGED vars
  BY <1>1 DEF vars, IInv, TypeOK, HandlerInv, LastAdminKept, WithdrawnInactive
<1>2. CASE Next
  <2>0. /\ flags \in [Users -> SUBSET Flag] /\ at \in [Handlers -> Pc]
        /\ late \subseteq late' /\ late' \subseteq Users
    BY <1>2, HistoriesGrow DEF IInv, TypeOK
  <2>1. TypeOK'
    <3>1. /\ flags' \in [Users -> SUBSET Flag]
          /\ \A u \in Users : "superuser" \in flags'[u] => "staff" \in flags'[u]
      <4>1. CASE Users = {}
        <5>1. \A h \in Handlers : ~Save(h)
          BY <4>1, SaveWrites
        <5>2. UNCHANGED flags
          BY <1>2, <4>1, <5>1 DEF Next, Count, CutShort
        <5> QED BY <2>0, <4>1, <5>2
      <4>2. CASE Users # {}
        BY <1>2, <4>2, FlagsStep
      <4> QED BY <4>1, <4>2
    <3>2. at' \in [Handlers -> Pc] /\ req' \in [Handlers -> Patch \cup {NoRequest}]
      BY <1>2, HandlerMoves DEF Next, Handle, Withdraw, IInv, TypeOK
    <3>3. stale' \subseteq Handlers
      <4>1. stale \subseteq Handlers
        BY DEF IInv, TypeOK
      <4>2. ASSUME NEW h \in Handlers, Save(h)
            PROVE  stale' \subseteq Handlers
        BY <4>2, SaveWrites DEF Changed
      <4>3. ASSUME NEW u \in Users, Withdraw(u)
            PROVE  stale' \subseteq Handlers
        BY <4>3 DEF Withdraw, Changed
      <4> QED BY <1>2, <4>1, <4>2, <4>3 DEF Next, Ask, Start, Count, CutShort
    <3>4. events' \subseteq {"stale save", "withdrawal"}
      BY <1>2, HistoriesGrow DEF IInv, TypeOK
    <3> QED BY <2>0, <3>1, <3>2, <3>3, <3>4 DEF TypeOK
  <2>2. ASSUME NEW g \in Handlers PROVE HandlerInv(g)'
    <3>1. CASE \E u \in Users : Withdraw(u)
      <4>1. PICK u \in Users : Withdraw(u)
        BY <3>1
      <4>2. UNCHANGED <<at, req>>
        BY <4>1 DEF Withdraw
      <4>3. at[g] # "idle" =>
               /\ ActiveAdmins(flags') = ActiveAdmins(flags) \/ g \in stale'
               /\ g \in stale => g \in stale'
        BY <4>1, <4>2 DEF Withdraw, Changed
      <4>4. \A v \in Users : Withdraw(v) /\ at[g] # "idle" /\ req[g].target = v => v \in late'
        BY DEF Withdraw
      <4> QED BY <1>2, <2>0, <4>2, <4>3, <4>4, HandlerFrame
    <3>2. CASE \E h \in Handlers \ {g} : Handle(h)
      <4>1. PICK h \in Handlers \ {g} : Handle(h)
        BY <3>2
      <4>2. at'[g] = at[g] /\ req'[g] = req[g]
        BY <4>1, HandlerMoves
      <4>3. at[g] # "idle" =>
               /\ ActiveAdmins(flags') = ActiveAdmins(flags) \/ g \in stale'
               /\ g \in stale => g \in stale'
        <5>1. CASE Save(h)
          BY <4>2, <5>1 DEF Save, Changed
        <5>2. CASE ~Save(h)
          BY <4>1, <5>2 DEF Handle, Ask, Start, Count, CutShort
        <5> QED BY <5>1, <5>2
      <4>4. \A v \in Users : Withdraw(v) /\ at[g] # "idle" /\ req[g].target = v => v \in late'
        BY DEF Withdraw
      <4> QED BY <1>2, <2>0, <4>2, <4>3, <4>4, HandlerFrame
    <3>3. CASE \E a, u \in Users, role \in Role, status \in Status :
                   Ask(g, a, u, role, status)
      <4>1. PICK a \in Users, u \in Users, role \in Role, status \in Status :
                   Ask(g, a, u, role, status)
        BY <3>3
      <4> DEFINE r == [target |-> u, role |-> role, status |-> status, was |-> flags[u]]
      <4>2. /\ at' = [at EXCEPT ![g] = IF Removes(flags[u], role, status)
                                       THEN "count" ELSE "save"]
            /\ req' = [req EXCEPT ![g] = r]
            /\ flags' = flags /\ stale' = stale /\ late' = late
            /\ "deleted" \notin flags[u]
        BY <4>1 DEF Ask, Start, Goto
      <4>3. /\ req'[g] = r
            /\ at'[g] = IF Removes(flags[u], role, status) THEN "count" ELSE "save"
        BY <2>0, <4>2 DEF IInv, TypeOK
      <4>4. r \in Patch /\ r.target = u /\ r.was = flags[u] /\ r.role = role /\ r.status = status
        BY <2>0 DEF Patch
      <4>5. ASSUME ~Removes(flags[u], role, status), ActiveAdmins(flags) = {u}
            PROVE  role # "member" /\ status # "stopped"
        <5>1. u \in ActiveAdmins(flags)
          BY <4>5
        <5>2. IsAdmin(flags[u])
          BY <5>1 DEF ActiveAdmins, IsActiveAdmin
        <5> QED BY <4>5, <5>2 DEF Removes
      <4> HIDE DEF r
      <4> QED BY <4>2, <4>3, <4>4, <4>5 DEF HandlerInv
    <3>4. CASE Count(g) /\ ~End(g)
      <4>1. /\ at[g] = "count" /\ Goto(g, "save") /\ UNCHANGED <<req, flags, late>>
            /\ ~(Cardinality(ActiveAdmins(flags)) <= 1)
        BY <3>4 DEF Count
      <4>2. ASSUME ActiveAdmins(flags) = {req[g].target}
            PROVE  FALSE
        <5>1. Cardinality(ActiveAdmins(flags)) = 1
          BY <4>2, FS_Singleton
        <5> QED BY <4>1, <5>1
      <4>3. HandlerInv(g)
        BY DEF IInv
      <4> QED BY <4>1, <4>2, <4>3 DEF HandlerInv
    <3>5. CASE End(g)
      <4>1. at'[g] = "idle"
        BY <2>0, <3>5 DEF End, Goto
      <4> QED BY <4>1 DEF HandlerInv
    <3>6. Save(g) \/ CutShort(g) => End(g)
      BY DEF Save, CutShort
    <3> QED BY <1>2, <3>1, <3>2, <3>3, <3>4, <3>5, <3>6 DEF Next, Handle
  <2>3. LastAdminKept'
    <3>1. CASE UNCHANGED flags
      <4>1. events \subseteq events'
        BY <1>2, HistoriesGrow
      <4> QED BY <3>1, <4>1 DEF IInv, LastAdminKept
    <3>2. ASSUME NEW h \in Handlers, Save(h)
          PROVE  LastAdminKept'
      <4>1. events \subseteq events'
            /\ (h \in stale /\ ActiveAdmins(flags') = {} => events' # {})
        BY <3>2, SaveWrites
      <4>2. CASE h \notin stale /\ ActiveAdmins(flags) # {}
        BY <3>2, <4>2, SaveKeepsAdmin DEF LastAdminKept
      <4>3. CASE ActiveAdmins(flags) = {}
        BY <4>1, <4>3 DEF IInv, LastAdminKept
      <4> QED BY <4>1, <4>2, <4>3 DEF LastAdminKept
    <3>3. ASSUME NEW u \in Users, Withdraw(u)
          PROVE  LastAdminKept'
      <4>1. /\ flags' = [flags EXCEPT ![u] = (flags[u] \ {"active"}) \cup {"deleted"}]
            /\ events' = IF ActiveAdmins(flags) = {u} THEN events \cup {"withdrawal"}
                                                      ELSE events
        BY <3>3 DEF Withdraw, Changed
      <4>2. CASE ActiveAdmins(flags) = {} \/ ActiveAdmins(flags) = {u}
        BY <4>1, <4>2 DEF IInv, LastAdminKept
      <4>3. CASE ActiveAdmins(flags) # {} /\ ActiveAdmins(flags) # {u}
        <5>1. PICK v \in ActiveAdmins(flags) : v # u
          BY <4>3
        <5>2. v \in Users /\ flags'[v] = flags[v]
          BY <2>0, <4>1, <5>1 DEF ActiveAdmins
        <5> QED BY <5>1, <5>2 DEF ActiveAdmins, LastAdminKept
      <4> QED BY <4>2, <4>3
    <3> QED BY <1>2, <3>1, <3>2, <3>3 DEF Next, Ask, Start, Count, CutShort
  <2>4. WithdrawnInactive'
    <3> SUFFICES ASSUME NEW u \in Users, "deleted" \in flags'[u], "active" \in flags'[u]
                 PROVE  u \in late'
      BY DEF WithdrawnInactive
    <3>1. CASE "active" \in flags[u] /\ "deleted" \in flags[u]
      BY <2>0, <3>1 DEF IInv, WithdrawnInactive
    <3>2. CASE "active" \in flags'[u] \ flags[u]
      <4>1. PICK h \in Handlers : Save(h) /\ req[h].target = u
        BY <1>2, <3>2, FlagsStep
      <4>2. at[h] = "save" /\ late' = late
        BY <4>1, SaveWrites
      <4>3. "deleted" \in flags[u]
        <5>1. ~Withdraw(u)
          BY <4>1, SaveEnds DEF Withdraw
        <5> QED BY <1>2, <5>1, FlagsStep
      <4> QED BY <4>1, <4>2, <4>3 DEF IInv, HandlerInv
    <3>3. CASE "deleted" \notin flags[u]
      <4>1. Withdraw(u)
        BY <1>2, <3>3, FlagsStep
      <4>2. flags'[u] = (flags[u] \ {"active"}) \cup {"deleted"}
        BY <2>0, <4>1 DEF Withdraw, Changed
      <4> QED BY <4>2
    <3> QED BY <3>1, <3>2, <3>3
  <2> QED BY <2>1, <2>2, <2>3, <2>4 DEF IInv
<1> QED BY <1>1, <1>2

(* It holds at first.                                                      *)
LEMMA InvInit == Init => IInv
<1> SUFFICES ASSUME Init PROVE IInv
  OBVIOUS
<1>1. flags \in [Users -> {{"active"}, {"active", "staff"}, {"active", "staff", "superuser"}}]
  BY DEF Init, Accounts
<1>2. PICK u \in Users : "staff" \in flags[u]
  BY DEF Init, Accounts
<1>3. TypeOK
  <2>1. \A v \in Users : /\ flags[v] \in SUBSET Flag
                         /\ "superuser" \in flags[v] => "staff" \in flags[v]
    BY <1>1 DEF Flag
  <2>2. flags \in [Users -> SUBSET Flag]
    BY <1>1, <2>1
  <2> QED BY <2>1, <2>2 DEF Init, TypeOK, Pc
<1>4. \A v \in Users : "active" \in flags[v] /\ "deleted" \notin flags[v]
  BY <1>1
<1>5. u \in ActiveAdmins(flags)
  BY <1>2, <1>4 DEF ActiveAdmins, IsActiveAdmin, IsAdmin
<1>6. \A h \in Handlers : HandlerInv(h)
  BY DEF Init, HandlerInv
<1> QED BY <1>3, <1>4, <1>5, <1>6 DEF IInv, LastAdminKept, WithdrawnInactive

(* It always holds.                                                        *)
THEOREM Invariance == Spec => []IInv
BY InvInit, InvStep, PTL DEF Spec

-----------------------------------------------------------------------------
(* Every reachable state is well-typed; in particular no superuser ever    *)
(* loses is_staff alone, however stale the patch that demotes them.        *)
THEOREM TypeCorrect == Spec => []TypeOK
<1>1. IInv => TypeOK
  BY DEF IInv
<1> QED BY <1>1, Invariance, PTL

(* LastAdminKept: however many patches judge each other's targets at once, *)
(* the last active administrator is only lost to a withdrawal or to a save *)
(* whose check the accounts had outrun.                                    *)
THEOREM AdminKept == Spec => []LastAdminKept
<1>1. IInv => LastAdminKept
  BY DEF IInv
<1> QED BY <1>1, Invariance, PTL

(* WithdrawnInactive: only a patch that was at work when its target        *)
(* withdrew can leave a withdrawn account active.                          *)
THEOREM WithdrawnStayInactive == Spec => []WithdrawnInactive
<1>1. IInv => WithdrawnInactive
  BY DEF IInv
<1> QED BY <1>1, Invariance, PTL

(* RightsGranted: no patch gives a right that it does not name, whatever   *)
(* was written between its load and its save.                              *)
THEOREM RightsAreGranted == Spec => RightsGranted
<1>1. ASSUME IInv, Next, NEW u \in Users
      PROVE  LET gained == flags'[u] \ flags[u]
                 Saving(h) == at[h] = "save" /\ at'[h] = "idle" /\ req[h].target = u
             IN  /\ "superuser" \notin gained
                 /\ "staff" \in gained => \E h \in Handlers : Saving(h) /\ req[h].role = "admin"
                 /\ "active" \in gained =>
                       \E h \in Handlers : Saving(h) /\ req[h].status = "normal"
  <2>1. ASSUME NEW h \in Handlers, Save(h)
        PROVE  at[h] = "save" /\ at'[h] = "idle"
    BY <1>1, <2>1, SaveEnds
  <2> QED BY <1>1, <2>1, FlagsStep
<1>2. IInv /\ [Next]_vars =>
        [\A u \in Users :
            LET gained == flags'[u] \ flags[u]
                Saving(h) == at[h] = "save" /\ at'[h] = "idle" /\ req[h].target = u IN
            /\ "superuser" \notin gained
            /\ "staff" \in gained => \E h \in Handlers : Saving(h) /\ req[h].role = "admin"
            /\ "active" \in gained =>
                  \E h \in Handlers : Saving(h) /\ req[h].status = "normal"]_vars
  BY <1>1
<1> QED BY <1>2, Invariance, PTL DEF Spec, RightsGranted

-----------------------------------------------------------------------------
(* The lists: how they are sorted and cut                                  *)

\* The number of items above one.
Rank(x, items) == Cardinality(Above(x, items))

(* No two items are equally new.                                           *)
LEMMA NewerOrder ==
    /\ \A x \in Item : ~Newer(x, x)
    /\ \A x, y, z \in Item : Newer(x, y) /\ Newer(y, z) => Newer(x, z)
    /\ \A x, y \in Item : x # y => Newer(x, y) \/ Newer(y, x)
<1>1. \A x \in Item : x.row \in Nat /\ x.part \in {"own", "review"}
  BY PagesAssumption DEF Item
<1>2. \A x, y \in Item : x.row = y.row /\ x.part = y.part => x = y
  BY DEF Item
<1> QED BY <1>1, <1>2 DEF Newer

(* The number of items above another one.                                  *)
LEMMA RankType ==
    ASSUME NEW items \in SUBSET Item, IsFiniteSet(items), NEW x \in items
    PROVE  /\ IsFiniteSet(Above(x, items))
           /\ Rank(x, items) \in Nat /\ Cardinality(items) \in Nat
           /\ Rank(x, items) < Cardinality(items)
<1>1. Above(x, items) \in SUBSET (items \ {x})
  BY NewerOrder DEF Above
<1>2. IsFiniteSet(items \ {x}) /\ Cardinality(items \ {x}) = Cardinality(items) - 1
  BY FS_RemoveElement
<1>3. IsFiniteSet(Above(x, items)) /\ Cardinality(Above(x, items)) <= Cardinality(items \ {x})
  BY <1>1, <1>2, FS_Subset
<1> QED BY <1>2, <1>3, FS_CardinalityType DEF Rank

(* Of two items the newer one has fewer above it.                          *)
LEMMA RankRises ==
    ASSUME NEW items \in SUBSET Item, IsFiniteSet(items),
           NEW x \in items, NEW y \in items, Newer(y, x)
    PROVE  Rank(y, items) < Rank(x, items)
<1>1. y \in Above(x, items) /\ Above(y, items) \in SUBSET (Above(x, items) \ {y})
  BY NewerOrder DEF Above
<1>2. IsFiniteSet(Above(x, items))
  BY RankType
<1>3. /\ IsFiniteSet(Above(x, items) \ {y})
      /\ Cardinality(Above(x, items) \ {y}) = Rank(x, items) - 1
  BY <1>1, <1>2, FS_RemoveElement DEF Rank
<1>4. Rank(y, items) <= Rank(x, items) - 1
  BY <1>1, <1>3, FS_Subset DEF Rank
<1> QED BY <1>4, RankType

(* Every place of the list is some item's, and only one's.                 *)
LEMMA RankTaken ==
    ASSUME NEW items \in SUBSET Item, IsFiniteSet(items),
           NEW n \in Nat, n < Cardinality(items)
    PROVE  \E x \in items : Rank(x, items) = n
<1> SUFFICES ASSUME \A x \in items : Rank(x, items) # n
             PROVE  FALSE
  OBVIOUS
<1> DEFINE size   == Cardinality(items)
           places == (0..(size - 1)) \ {n}
           place  == [x \in items |-> Rank(x, items)]
<1>1. size \in Nat /\ size > 0
  BY FS_CardinalityType
<1>2. IsFiniteSet(0..(size - 1)) /\ Cardinality(0..(size - 1)) = size
  <2> HIDE DEF size
  <2>1. \A k \in Nat : /\ IsFiniteSet(0..k) /\ Cardinality(0..k) = k + 1
    BY FS_Interval
  <2> QED BY <1>1, <2>1
<1>3. IsFiniteSet(places) /\ Cardinality(places) = size - 1
  <2>1. n \in 0..(size - 1)
    BY <1>1
  <2>2. /\ IsFiniteSet(0..(size - 1) \ {n})
        /\ Cardinality(0..(size - 1) \ {n}) = Cardinality(0..(size - 1)) - 1
    BY <1>2, <2>1, FS_RemoveElement, Zenon
  <2> QED BY <1>2, <2>2
<1>4. place \in [items -> places]
  <2>1. \A x \in items : Rank(x, items) \in places
    BY <1>1, RankType
  <2> QED BY <2>1
<1>5. PICK x \in items, y \in items : x # y /\ place[x] = place[y]
  <2> HIDE DEF places, place
  <2>1. Cardinality(places) < size
    BY <1>1, <1>3
  <2> QED BY <1>3, <1>4, <2>1, FS_PigeonHole, Zenon
<1>6. Newer(x, y) \/ Newer(y, x)
  BY <1>5, NewerOrder
<1> QED BY <1>5, <1>6, RankRises, RankType

(* The n-th of a list is the item with n-1 above it, and no other is.      *)
LEMMA ListAt ==
    ASSUME NEW items \in SUBSET Item, IsFiniteSet(items),
           NEW n \in Nat \ {0}, n <= Cardinality(items)
    PROVE  /\ NewestFirst(items)[n] \in items
           /\ Rank(NewestFirst(items)[n], items) = n - 1
           /\ \A x \in items : Rank(x, items) = n - 1 => x = NewestFirst(items)[n]
<1>1. Cardinality(items) \in Nat /\ n \in 1..Cardinality(items)
  BY FS_CardinalityType
<1>2. \E x \in items : Rank(x, items) = n - 1
  BY <1>1, RankTaken
<1>3. NewestFirst(items)[n] = CHOOSE x \in items : Rank(x, items) = n - 1
  BY <1>1 DEF NewestFirst, Rank
<1>4. NewestFirst(items)[n] \in items /\ Rank(NewestFirst(items)[n], items) = n - 1
  BY <1>2, <1>3
<1>5. ASSUME NEW x \in items, Rank(x, items) = n - 1
      PROVE  x = NewestFirst(items)[n]
  BY <1>4, <1>5, RankRises, RankType, NewerOrder
<1> QED BY <1>4, <1>5

(* A list has the length of its set.                                       *)
LEMMA ListLength ==
    ASSUME NEW items \in SUBSET Item, IsFiniteSet(items)
    PROVE  /\ Len(NewestFirst(items)) = Cardinality(items)
           /\ Cardinality(items) \in Nat
<1>1. Cardinality(items) \in Nat
  BY FS_CardinalityType
<1>2. \A n \in 1..Cardinality(items) : NewestFirst(items)[n] \in items
  BY <1>1, ListAt
<1>3. NewestFirst(items) = [n \in 1..Cardinality(items) |-> NewestFirst(items)[n]]
  BY DEF NewestFirst
<1>4. NewestFirst(items) \in [1..Cardinality(items) -> items]
  BY <1>2, <1>3, Zenon
<1> QED BY <1>1, <1>4, LenProperties, SeqDef

(* Leaving out items that have at least limit others above them leaves the *)
(* first limit places alone.                                               *)
LEMMA SamePrefix ==
    ASSUME NEW items \in SUBSET Item, IsFiniteSet(items), NEW few \in SUBSET items,
           NEW limit \in Nat,
           \A x \in items : Rank(x, items) < limit => x \in few
    PROVE  /\ IsFiniteSet(few) /\ Cardinality(few) <= Cardinality(items)
           /\ \A n \in Nat \ {0} : n <= limit /\ n <= Cardinality(items) =>
                 n <= Cardinality(few) /\ NewestFirst(few)[n] = NewestFirst(items)[n]
<1>1. IsFiniteSet(few) /\ Cardinality(few) <= Cardinality(items)
  BY FS_Subset
<1>2. ASSUME NEW n \in Nat \ {0}, n <= limit, n <= Cardinality(items)
      PROVE  n <= Cardinality(few) /\ NewestFirst(few)[n] = NewestFirst(items)[n]
  <2> DEFINE x == NewestFirst(items)[n]
  <2>1. x \in items /\ Rank(x, items) = n - 1
    BY <1>2, ListAt
  <2>2. x \in few
    BY <1>2, <2>1
  <2>3. \A y \in Above(x, items) : y \in few
    <3> SUFFICES ASSUME NEW y \in items, Newer(y, x)
                 PROVE  y \in few
      BY DEF Above
    <3>1. Rank(y, items) < Rank(x, items) /\ Rank(y, items) \in Nat
      BY <2>1, RankRises, RankType
    <3> QED BY <1>2, <2>1, <3>1
  <2>4. Above(x, few) = Above(x, items)
    BY <2>3 DEF Above
  <2>5. Rank(x, few) = n - 1
    BY <2>1, <2>4 DEF Rank
  <2> HIDE DEF x
  <2>6. n <= Cardinality(few)
    BY <1>1, <2>2, <2>5, RankType
  <2> QED BY <1>1, <2>2, <2>5, <2>6, ListAt DEF x
<1> QED BY <1>1, <1>2

(* Nor does it change a page within these places: it ends where it ended.  *)
LEMMA SameSlice ==
    ASSUME NEW items \in SUBSET Item, IsFiniteSet(items), NEW few \in SUBSET items,
           NEW page \in Nat \ {0}, NEW size \in Nat \ {0},
           \A x \in items : Rank(x, items) < page * size => x \in few
    PROVE  Slice(NewestFirst(few), page, size) = Slice(NewestFirst(items), page, size)
<1> DEFINE from == (page - 1) * size
           to   == page * size
<1>1. from \in Nat /\ to \in Nat
  OBVIOUS
<1>2. /\ IsFiniteSet(few) /\ Cardinality(few) <= Cardinality(items)
      /\ \A n \in Nat \ {0} : n <= to /\ n <= Cardinality(items) =>
            n <= Cardinality(few) /\ NewestFirst(few)[n] = NewestFirst(items)[n]
  BY <1>1, SamePrefix
<1>3. /\ Len(NewestFirst(items)) = Cardinality(items) /\ Cardinality(items) \in Nat
      /\ Len(NewestFirst(few)) = Cardinality(few) /\ Cardinality(few) \in Nat
  BY <1>2, ListLength
<1> HIDE DEF from, to
<1>4. Lesser(to, Cardinality(few)) = Lesser(to, Cardinality(items))
  <2>1. CASE Cardinality(items) >= to /\ to > 0
    BY <1>1, <1>2, <1>3, <2>1 DEF Lesser
  <2>2. CASE Cardinality(items) < to /\ Cardinality(items) > 0
    BY <1>1, <1>2, <1>3, <2>2 DEF Lesser
  <2>3. CASE Cardinality(items) = 0 \/ to = 0
    BY <1>1, <1>2, <1>3, <2>3 DEF Lesser
  <2> QED BY <1>1, <1>3, <2>1, <2>2, <2>3
<1>5. \A n \in 1..(Lesser(to, Cardinality(items)) - from) :
          NewestFirst(few)[from + n] = NewestFirst(items)[from + n]
  <2> SUFFICES ASSUME NEW n \in 1..(Lesser(to, Cardinality(items)) - from)
               PROVE  NewestFirst(few)[from + n] = NewestFirst(items)[from + n]
    OBVIOUS
  <2>1. from + n \in Nat \ {0} /\ from + n <= to /\ from + n <= Cardinality(items)
    BY <1>1, <1>3 DEF Lesser
  <2> QED BY <1>2, <2>1
<1> QED BY <1>3, <1>4, <1>5 DEF Slice, from, to

-----------------------------------------------------------------------------
(* The rows of a user are finitely many.                                   *)
LEMMA RowsType ==
    ASSUME Pages!TypeOK
    PROVE  /\ Len(timeline) \in Nat /\ Len(timeline) <= MaxEvents
           /\ \A i \in 1..Len(timeline) : timeline[i] \in Row
           /\ approved \subseteq Rows("content")
           /\ mints \subseteq Rows("mint")
           /\ \A kind : Rows(kind) \subseteq 1..Len(timeline)
           /\ \A rows \in SUBSET (1..Len(timeline)) :
                 /\ IsFiniteSet(rows) /\ Cardinality(rows) \in Nat
                 /\ rows \in SUBSET (1..MaxEvents)
<1>1. timeline \in Seq(Row) /\ Len(timeline) <= MaxEvents
  BY DEF Pages!TypeOK, Pages!Rows, Rows, Pages!Row, Row, Pages!Kind, Kind
<1>2. Len(timeline) \in Nat /\ \A i \in 1..Len(timeline) : timeline[i] \in Row
  BY <1>1, LenProperties
<1>3. approved \subseteq Rows("content")
  BY DEF Pages!TypeOK, Pages!Rows, Rows, approved
<1>4. IsFiniteSet(1..Len(timeline)) /\ 1..Len(timeline) \subseteq 1..MaxEvents
  BY <1>1, <1>2, FS_Interval, PagesAssumption
<1>5. \A rows \in SUBSET (1..Len(timeline)) :
          IsFiniteSet(rows) /\ Cardinality(rows) \in Nat
  BY <1>4, FS_Subset, FS_CardinalityType
<1> QED BY <1>1, <1>2, <1>3, <1>4, <1>5 DEF Rows, mints

(* What a set of rows shows is a finite set of items.                      *)
LEMMA ShownItems ==
    ASSUME NEW rows \in SUBSET (1..MaxEvents), NEW part \in {"own", "review"}
    PROVE  /\ [row : rows, part : {part}] \in SUBSET Item
           /\ IsFiniteSet([row : rows, part : {part}])
<1> DEFINE items == [row : rows, part : {part}]
           row   == [x \in items |-> x.row]
<1>1. row \in Injection(items, rows)
  <2>1. row \in [items -> rows]
    OBVIOUS
  <2>2. \A x, y \in items : row[x] = row[y] => x = y
    OBVIOUS
  <2> HIDE DEF items, row
  <2> QED BY <2>1, <2>2 DEF Injection, IsInjective
<1>2. IsFiniteSet(rows)
  <2>1. 1 \in Int /\ MaxEvents \in Int
    BY PagesAssumption
  <2>2. IsFiniteSet(1..MaxEvents)
    BY <2>1, FS_Interval
  <2> QED BY <2>2, FS_Subset
<1>3. IsFiniteSet(items)
  <2> HIDE DEF items, row
  <2> QED BY <1>1, <1>2, FS_Injection
<1> QED BY <1>3 DEF Item

(* So are all items there can be.                                          *)
LEMMA ItemsFinite ==
    ASSUME NEW items \in SUBSET Item
    PROVE  IsFiniteSet(items) /\ Cardinality(items) \in Nat
<1>1. \A part \in {"own", "review"} : IsFiniteSet([row : 1..MaxEvents, part : {part}])
  BY ShownItems
<1>2. Item = [row : 1..MaxEvents, part : {"own"}] \cup [row : 1..MaxEvents, part : {"review"}]
  BY DEF Item
<1>3. IsFiniteSet(Item)
  BY <1>1, <1>2, FS_Union
<1> QED BY <1>3, FS_Subset, FS_CardinalityType

(* The history of some rows is a finite set of items.                      *)
LEMMA HistoryItems ==
    ASSUME Pages!TypeOK, NEW rows \in SUBSET (1..Len(timeline))
    PROVE  ItemsOf(rows) \in SUBSET Item /\ IsFiniteSet(ItemsOf(rows))
<1>1. rows \in SUBSET (1..MaxEvents)
  BY RowsType
<1> QED BY <1>1, ItemsFinite DEF ItemsOf, Item

(* A row whose item is among the first limit is among the newest limit     *)
(* rows of its table.                                                      *)
LEMMA NewestEnough ==
    ASSUME Pages!TypeOK, NEW kind, NEW limit \in Nat,
           NEW items \in SUBSET Item, IsFiniteSet(items),
           \A j \in Rows(kind) : [row |-> j, part |-> "own"] \in items,
           NEW x \in items, x.row \in Rows(kind), Rank(x, items) < limit
    PROVE  x.row \in NewestRows(kind, limit)
<1> DEFINE newer == {j \in Rows(kind) : j > x.row}
           item  == [j \in newer |-> [row |-> j, part |-> "own"]]
<1>1. item \in Injection(newer, Above(x, items))
  <2>1. \A j \in newer : [row |-> j, part |-> "own"] \in Above(x, items)
    BY DEF Above, Newer
  <2>2. item \in [newer -> Above(x, items)]
    BY <2>1
  <2>3. \A i, j \in newer : item[i] = item[j] => i = j
    OBVIOUS
  <2> HIDE DEF newer, item
  <2> QED BY <2>2, <2>3 DEF Injection, IsInjective
<1>2. IsFiniteSet(Above(x, items)) /\ Rank(x, items) \in Nat
  BY RankType
<1>3. Cardinality(newer) <= Rank(x, items)
  <2> HIDE DEF newer, item
  <2> QED BY <1>1, <1>2, FS_Injection DEF Rank
<1>4. Cardinality(newer) \in Nat
  BY RowsType
<1>5. Cardinality(newer) < limit
  BY <1>2, <1>3, <1>4
<1> QED BY <1>5 DEF NewestRows

(* The first part of PagesExact.                                           *)
LEMMA HistoryExact ==
    ASSUME Pages!TypeOK, NEW size \in Nat \ {0}, NEW page \in 1..MaxPage
    PROVE  HistoryPage(page, size) = Slice(NewestFirst(History), page, size)
<1> DEFINE limit == page * size
           few   == NewestRows("content", limit) \cup NewestRows("verification", limit)
<1>1. limit \in Nat /\ page \in Nat \ {0} /\ Lesser(page, MaxPage) = page
  BY PagesAssumption DEF Lesser
<1>2. few \subseteq Rows("content") \cup Rows("verification")
  BY DEF NewestRows
<1>3. Rows("content") \cup Rows("verification") \in SUBSET (1..Len(timeline))
  BY RowsType
<1>4. History \in SUBSET Item /\ IsFiniteSet(History)
  BY <1>3, HistoryItems DEF History
<1>5. ItemsOf(few) \in SUBSET History
  BY <1>2 DEF ItemsOf, History
<1>6. ASSUME NEW x \in History, Rank(x, History) < limit
      PROVE  x \in ItemsOf(few)
  <2>1. \A kind \in {"content", "verification"} : \A j \in Rows(kind) :
            [row |-> j, part |-> "own"] \in History
    BY DEF History, ItemsOf
  <2>2. \E kind \in {"content", "verification"} : x.row \in Rows(kind)
    BY DEF History, ItemsOf
  <2>3. \A kind \in {"content", "verification"} :
            x.row \in Rows(kind) => x.row \in NewestRows(kind, limit)
    <3> HIDE DEF limit
    <3> QED BY <1>1, <1>4, <1>6, <2>1, NewestEnough
  <2>4. x.row \in few
    BY <2>2, <2>3
  <2> QED BY <2>4 DEF History, ItemsOf
<1>7. Slice(NewestFirst(ItemsOf(few)), page, size) = Slice(NewestFirst(History), page, size)
  <2> HIDE DEF few
  <2> QED BY <1>1, <1>4, <1>5, <1>6, SameSlice
<1> QED BY <1>1, <1>7 DEF HistoryPage

(* The second part of PagesExact.                                          *)
LEMMA ActivitiesExact ==
    ASSUME Pages!TypeOK, NEW size \in Nat \ {0}, NEW page \in 1..ActivityPages(size),
           \A m \in mints : timeline[m].content \in NewestRows("content", page * size)
    PROVE  ActivityPage(page, size)
               = Slice(Listed((1..Len(timeline)) \ (Rows("mint") \cap hidden)), page, size)
<1> DEFINE limit == page * size
           shown == (1..Len(timeline)) \ (Rows("mint") \cap hidden)
           all   == [row : shown, part : {"own"}]
           few   == [row : Activities(limit), part : {"own"}]
<1>1. limit \in Nat /\ page \in Nat \ {0} /\ Lesser(page, ActivityPages(size)) = page
  <2>1. ActivityCount \in Nat
    <3>1. Cardinality(approved) \in Nat /\ \A kind : Cardinality(Rows(kind)) \in Nat
      BY RowsType
    <3> QED BY <3>1 DEF ActivityCount
  <2>2. ActivityPages(size) \in Int
    BY <2>1 DEF ActivityPages
  <2> QED BY <2>2 DEF Lesser
<1>2. Activities(limit) \subseteq shown
  BY DEF Activities, NewestRows, Rows, mints
<1>3. all \in SUBSET Item /\ IsFiniteSet(all)
  <2>1. shown \in SUBSET (1..MaxEvents)
    BY RowsType
  <2> HIDE DEF shown
  <2> QED BY <2>1, ShownItems
<1>4. few \in SUBSET all
  BY <1>2
<1>5. ASSUME NEW x \in all, Rank(x, all) < limit
      PROVE  x \in few
  <2>1. \A kind : kind # "mint" =>
            \A j \in Rows(kind) : [row |-> j, part |-> "own"] \in all
    BY DEF Rows
  <2>2. \A kind : kind # "mint" /\ x.row \in Rows(kind) => x.row \in NewestRows(kind, limit)
    <3> HIDE DEF limit, all
    <3> QED BY <1>1, <1>3, <1>5, <2>1, NewestEnough
  <2>3. \E kind \in Kind : x.row \in Rows(kind)
    BY RowsType DEF Rows, Row
  <2>4. x.row \in Rows("mint") => x.row \in mints
    BY DEF mints
  <2>5. x.row \in Activities(limit)
    BY <2>2, <2>3, <2>4 DEF Kind, Activities
  <2> QED BY <2>5
<1>6. Slice(NewestFirst(few), page, size) = Slice(NewestFirst(all), page, size)
  <2> HIDE DEF few, all
  <2> QED BY <1>1, <1>3, <1>4, <1>5, SameSlice
<1> QED BY <1>1, <1>6 DEF ActivityPage, Listed

-----------------------------------------------------------------------------
\* What the steps of HistoryPages are written with.
Same ==
    /\ \A kind : Pages!Rows(kind) = Rows(kind)
    /\ Pages!History = History
    /\ \A page, size : Pages!HistoryPage(page, size) = HistoryPage(page, size)
    /\ \A f : Pages!Range(f) = Range(f)
    /\ \A a, b : Pages!Lesser(a, b) = Lesser(a, b)
    /\ Pages!Row = Row /\ Pages!Item = Item /\ Pages!Kind = Kind

(* HistoryPages has the operators of PagedLists.                           *)
LEMMA SameOperators == Same
<1>0. \A S : Pages!Cardinality(S) = Cardinality(S)
  BY DEF Pages!Cardinality, Cardinality
<1>1. \A kind : Pages!Rows(kind) = Rows(kind)
  BY DEF Pages!Rows, Rows
<1>2. \A rows : Pages!ItemsOf(rows) = ItemsOf(rows)
  BY DEF Pages!ItemsOf, ItemsOf, Pages!approved, approved
<1>3. ASSUME NEW kind, NEW limit
      PROVE  Pages!NewestRows(kind, limit) = NewestRows(kind, limit)
  <2>1. Pages!Rows(kind) = Rows(kind)
    BY <1>1
  <2> QED BY <2>1, <1>0, Zenon DEF Pages!NewestRows, NewestRows
<1>4. ASSUME NEW items
      PROVE  Pages!NewestFirst(items) = NewestFirst(items)
  <2>1. ASSUME NEW x
        PROVE  Pages!Above(x, items) = Above(x, items)
    BY DEF Pages!Above, Above, Pages!Newer, Newer
  <2>2. ASSUME NEW n
        PROVE  (CHOOSE x \in items : Pages!Cardinality(Pages!Above(x, items)) = n - 1)
                   = (CHOOSE x \in items : Cardinality(Above(x, items)) = n - 1)
    BY <1>0, <2>1
  <2> QED BY <1>0, <2>2 DEF Pages!NewestFirst, NewestFirst
<1>5. \A a, b : Pages!Lesser(a, b) = Lesser(a, b)
  BY DEF Pages!Lesser, Lesser
<1>6. \A list, page, size : Pages!Slice(list, page, size) = Slice(list, page, size)
  BY <1>5 DEF Pages!Slice, Slice
<1>7. \A page, size : Pages!HistoryPage(page, size) = HistoryPage(page, size)
  BY <1>2, <1>3, <1>4, <1>5, <1>6 DEF Pages!HistoryPage, HistoryPage
<1>8. Pages!History = History
  BY <1>1, <1>2 DEF Pages!History, History
<1>9. /\ \A f : Pages!Range(f) = Range(f)
      /\ Pages!Row = Row /\ Pages!Item = Item /\ Pages!Kind = Kind
  BY DEF Pages!Range, Range, Pages!Row, Row, Pages!Item, Item,
     Pages!Kind, Kind
<1> QED BY <1>1, <1>5, <1>7, <1>8, <1>9 DEF Same

(* What a page holds: the items whose rank lies in it, and as many as its  *)
(* size if there are enough.  Pages after the last one are the last one.   *)
LEMMA PageHolds ==
    ASSUME Pages!TypeOK, NEW size \in Nat \ {0}, NEW page \in 1..(MaxPage + 1)
    PROVE  LET p == Lesser(page, MaxPage) IN
           /\ Range(HistoryPage(page, size)) \subseteq Item
           /\ \A x \in History :
                 (p - 1) * size <= Rank(x, History) /\ Rank(x, History) < p * size
                     => x \in Range(HistoryPage(page, size))
           /\ Len(HistoryPage(page, size)) < size => Cardinality(History) < p * size
<1> DEFINE p     == Lesser(page, MaxPage)
           from  == (p - 1) * size
           to    == p * size
           total == Cardinality(History)
           last  == Lesser(to, total)
           list  == NewestFirst(History)
           items == HistoryPage(page, size)
<1>1. p \in 1..MaxPage /\ Lesser(p, MaxPage) = p
  BY PagesAssumption DEF Lesser
<1>2. History \in SUBSET Item /\ IsFiniteSet(History)
  <2>1. Rows("content") \cup Rows("verification") \in SUBSET (1..Len(timeline))
    BY RowsType
  <2> QED BY <2>1, HistoryItems DEF History
<1>3. items = Slice(list, p, size)
  <2>1. items = HistoryPage(p, size)
    BY <1>1 DEF HistoryPage
  <2> QED BY <1>1, <2>1, HistoryExact
<1>4. total \in Nat /\ Len(list) = total
  BY <1>2, ListLength
<1>5. from \in Nat /\ to \in Nat /\ to = from + size
  BY <1>1, PagesAssumption
<1>6. items = [n \in 1..(last - from) |-> list[from + n]]
  BY <1>3, <1>4 DEF Slice
<1> HIDE DEF p, from, to, total, list, items
<1>7. last \in Nat /\ last <= to /\ last <= total /\ (last = to \/ last = total)
  BY <1>4, <1>5 DEF Lesser
<1> HIDE DEF last
<1>8. \A n \in 1..(last - from) : items[n] = list[from + n] /\ list[from + n] \in History
  <2> SUFFICES ASSUME NEW n \in 1..(last - from)
               PROVE  list[from + n] \in History
    BY <1>6
  <2>1. n \in Nat \ {0} /\ n <= last - from
    BY <1>5, <1>7
  <2>2. from + n \in Nat \ {0} /\ from + n <= total
    BY <1>4, <1>5, <1>7, <2>1
  <2> QED BY <1>2, <2>2, ListAt DEF list, total
<1>9. Range(items) \subseteq Item
  BY <1>2, <1>6, <1>8 DEF Range
<1>10. ASSUME NEW x \in History, from <= Rank(x, History), Rank(x, History) < to
       PROVE  x \in Range(items)
  <2> DEFINE n == Rank(x, History) + 1
  <2>1. n \in Nat \ {0} /\ n <= total /\ n - from \in 1..(last - from)
    <3>1. Rank(x, History) \in Nat /\ Rank(x, History) < total
      BY <1>2, RankType DEF total
    <3> QED BY <1>4, <1>5, <1>7, <1>10, <3>1
  <2>2. Rank(x, History) = n - 1
    BY <1>2, RankType
  <2>3. x = list[n]
    <3> HIDE DEF n
    <3> QED BY <1>2, <2>1, <2>2, ListAt DEF list, total
  <2>4. items[n - from] = list[n]
    <3> HIDE DEF n
    <3>1. from + (n - from) = n
      BY <1>5, <2>1
    <3> QED BY <1>8, <2>1, <3>1
  <2>5. n - from \in DOMAIN items
    BY <1>6, <2>1
  <2> QED BY <2>3, <2>4, <2>5 DEF Range
<1>11. ASSUME total >= to
       PROVE  Len(items) = size
  <2>1. last - from = size
    BY <1>4, <1>5, <1>7, <1>11
  <2>2. items \in [1..size -> History]
    BY <1>6, <1>8, <2>1
  <2> QED BY <2>2, SeqDef, LenProperties
<1> QED BY <1>4, <1>5, <1>9, <1>10, <1>11 DEF p, from, to, total, items

-----------------------------------------------------------------------------
\* The type invariant of HistoryPages in the operators of PagedLists.
RowsOK ==
    /\ timeline \in Seq(Row) /\ Len(timeline) <= MaxEvents
    /\ voted \subseteq Rows("content") /\ hidden \subseteq voted \cup Rows("mint")
    /\ \A m \in Rows("mint") : timeline[m].content \in Rows("content") /\ timeline[m].content < m
    /\ \A m, n \in Rows("mint") : timeline[m].content = timeline[n].content => m = n

ClientOK ==
    /\ walk \in [at : {"idle", "walking", "done"}, page : 1..(MaxPage + 1), size : PageSizes]
    /\ known \subseteq Item /\ seen \subseteq Item

\* A formula, so that it can be primed.
TypeParts == Pages!TypeOK <=> RowsOK /\ ClientOK /\ taken \in 0..MaxTaken

(* The type invariant consists of these parts.                             *)
LEMMA TypeSplit == TypeParts
BY SameOperators DEF Same, TypeParts, Pages!TypeOK, RowsOK, ClientOK

(* The history is a finite set of items.                                   *)
LEMMA HistoryFinite == Pages!TypeOK => History \in SUBSET Item /\ IsFiniteSet(History)
<1> SUFFICES ASSUME Pages!TypeOK
             PROVE  History \in SUBSET Item /\ IsFiniteSet(History)
  OBVIOUS
<1>1. Rows("content") \cup Rows("verification") \in SUBSET (1..Len(timeline))
  BY RowsType
<1> QED BY <1>1, HistoryItems DEF History

(* A new row is added to its own table and changes no other row.           *)
LEMMA RowAdded ==
    ASSUME RowsOK, NEW kind \in Kind, NEW content \in 0..MaxEvents, Pages!Happens(kind, content)
    PROVE  LET last == Len(timeline) + 1 IN
           /\ timeline' \in Seq(Row) /\ Len(timeline') = last /\ last <= MaxEvents
           /\ last \in Nat /\ timeline'[last] = [kind |-> kind, content |-> content]
           /\ \A i \in 1..Len(timeline) : timeline'[i] = timeline[i]
           /\ Rows(kind)' = Rows(kind) \cup {last}
           /\ \A k : k # kind => Rows(k)' = Rows(k)
<1> DEFINE last == Len(timeline) + 1
           row  == [kind |-> kind, content |-> content]
<1>1. timeline \in Seq(Row) /\ Len(timeline) < MaxEvents /\ timeline' = Append(timeline, row)
  BY DEF RowsOK, Pages!Happens
<1>2. row \in Row
  BY DEF Row
<1>3. Len(timeline) \in Nat
  BY <1>1, LenProperties
<1>4. /\ timeline' \in Seq(Row) /\ Len(timeline') = last
      /\ \A i \in 1..Len(timeline) : timeline'[i] = timeline[i]
      /\ timeline'[last] = row
  <2> HIDE DEF row
  <2> QED BY <1>1, <1>2, <1>3, AppendProperties
<1>5. last \in Nat /\ last <= MaxEvents /\ 1..last = 1..Len(timeline) \cup {last}
  BY <1>1, <1>3, PagesAssumption
<1>6. \A k : Rows(k)' = {i \in 1..last : timeline'[i].kind = k}
  BY <1>4 DEF Rows
<1>7. Rows(kind)' = Rows(kind) \cup {last}
  BY <1>4, <1>5, <1>6 DEF Rows
<1>8. ASSUME NEW k, k # kind
      PROVE  Rows(k)' = Rows(k)
  BY <1>4, <1>5, <1>6, <1>8 DEF Rows
<1> QED BY <1>4, <1>5, <1>7, <1>8

\* A row is added, which may be the only mint of a content and shows the vote of
\* this content; or a vote ends; or an overtaken save changes what is shown of a
\* voted content; or the rows stay as they are.
RowStep ==
    \/ \E kind \in Kind, content \in 0..MaxEvents :
         /\ Pages!Happens(kind, content)
         /\ hidden' \in {hidden, hidden \ {content}}
         /\ kind = "mint" => /\ content \in Rows("content")
                             /\ \A m \in Rows("mint") : timeline[m].content # content
    \/ \E i \in Rows("content") :
         voted' = voted \cup {i} /\ UNCHANGED <<timeline, hidden>>
    \/ \E i \in voted : Pages!SaveOvertaken(i)
    \/ UNCHANGED Pages!rows

(* No step of HistoryPages does anything else to the rows.                 *)
LEMMA RowSteps ==
    ASSUME RowsOK, [Pages!Next]_(Pages!vars)
    PROVE  RowStep
<1>1. MaxEvents \in Nat /\ Kind = {"content", "verification", "ballot", "mint"}
  BY PagesAssumption DEF Kind
<1>2. ASSUME Pages!RegisterContent \/ Pages!VerifyFile \/ Pages!CastBallot
      PROVE  RowStep
  BY <1>1, <1>2 DEF Pages!RegisterContent, Pages!VerifyFile, Pages!CastBallot, RowStep
<1>3. ASSUME NEW i \in 1..Len(timeline), Pages!Mint(i)
      PROVE  RowStep
  <2>1. i \in 0..MaxEvents
    BY PagesAssumption, LenProperties DEF RowsOK
  <2>2. i \in Rows("content") /\ \A m \in Rows("mint") : timeline[m].content # i
    BY <1>3, SameOperators DEF Same, Pages!Mint, Pages!MintsOf
  <2>3. Pages!Happens("mint", i) /\ hidden' = hidden \ {i}
    BY <1>3 DEF Pages!Mint
  <2> QED BY <1>1, <2>1, <2>2, <2>3 DEF RowStep
<1>4. ASSUME NEW i \in 1..Len(timeline), Pages!Approve(i)
      PROVE  RowStep
  BY <1>4, SameOperators DEF Same, Pages!Approve, RowStep
<1>5. ASSUME NEW i \in 1..Len(timeline), Pages!SaveOvertaken(i)
      PROVE  RowStep
  BY <1>5 DEF Pages!SaveOvertaken, RowStep
<1>6. ASSUME Pages!OpenHistory \/ Pages!ReadPage \/ UNCHANGED Pages!vars
      PROVE  RowStep
  BY <1>6 DEF Pages!OpenHistory, Pages!ReadPage, Pages!vars, RowStep
<1> QED BY <1>2, <1>3, <1>4, <1>5, <1>6 DEF Pages!Next, Pages!Event

(* An overtaken save takes no result but that of its content out of the    *)
(* history.                                                                *)
LEMMA OvertakenShows ==
    ASSUME RowsOK, NEW i \in voted, Pages!SaveOvertaken(i)
    PROVE  /\ UNCHANGED <<timeline, voted, Pages!client>>
           /\ hidden' \subseteq voted \cup Rows("mint")
           /\ \A k : Rows(k)' = Rows(k)
           /\ \/ History \in SUBSET History' /\ (i \notin hidden' \/ i \in hidden)
              \/ /\ i \in hidden' \ hidden
                 /\ [row |-> i, part |-> "review"] \in History
                 /\ History' = History \ {[row |-> i, part |-> "review"]}
<1> DEFINE own == {m \in Rows("mint") : timeline[m].content = i}
<1>1. /\ \E back \in {{}, own, own \cup {i}} : hidden' = (hidden \ (own \cup {i})) \cup back
      /\ UNCHANGED <<timeline, voted, Pages!client>>
  BY SameOperators DEF Same, Pages!SaveOvertaken, Pages!MintsOf
<1>2. \A k : Rows(k)' = Rows(k)
  BY <1>1 DEF Rows
<1>3. hidden' \subseteq voted \cup Rows("mint")
  BY <1>1 DEF RowsOK
<1>4. Rows("mint") \cap Rows("content") = {}
  BY DEF Rows
<1>5. i \in Rows("content") /\ voted \subseteq Rows("content")
  BY DEF RowsOK
<1>6. \A j \in voted : j # i => (j \in hidden' <=> j \in hidden)
  BY <1>1, <1>4, <1>5
<1>7. CASE i \notin hidden' \/ i \in hidden
  <2>1. approved \subseteq approved'
    BY <1>1, <1>6, <1>7 DEF approved
  <2>2. History \in SUBSET History'
    BY <1>2, <2>1 DEF History, ItemsOf
  <2> QED BY <1>1, <1>2, <1>3, <1>7, <2>2
<1>8. CASE i \in hidden' \ hidden
  <2>1. i \in approved /\ approved' = approved \ {i}
    BY <1>1, <1>6, <1>8 DEF approved
  <2> DEFINE y == [row |-> i, part |-> "review"]
  <2>2. y \in History
    BY <1>5, <2>1 DEF History, ItemsOf
  <2>3. \A x : x \in History' <=> x \in History \ {y}
    BY <1>2, <2>1 DEF History, ItemsOf
  <2> QED BY <1>1, <1>2, <1>3, <1>8, <2>2, <2>3
<1> QED BY <1>7, <1>8

(* A step keeps the rows well formed.  It takes an item out of the history *)
(* only if it is an overtaken save, and then this one item.                *)
LEMMA RowsKept ==
    ASSUME RowsOK, RowStep
    PROVE  /\ RowsOK'
           /\ \/ History \in SUBSET History'
              \/ \E i \in voted : Pages!SaveOvertaken(i)
<1>1. ASSUME NEW kind \in Kind, NEW content \in 0..MaxEvents, Pages!Happens(kind, content),
             hidden' \in {hidden, hidden \ {content}},
             kind = "mint" => /\ content \in Rows("content")
                              /\ \A m \in Rows("mint") : timeline[m].content # content
      PROVE  RowsOK' /\ History \in SUBSET History'
  <2> DEFINE last == Len(timeline) + 1
  <2>1. /\ timeline' \in Seq(Row) /\ Len(timeline') = last /\ last <= MaxEvents
        /\ last \in Nat /\ timeline'[last] = [kind |-> kind, content |-> content]
        /\ \A i \in 1..Len(timeline) : timeline'[i] = timeline[i]
        /\ Rows(kind)' = Rows(kind) \cup {last}
        /\ \A k : k # kind => Rows(k)' = Rows(k)
    BY <1>1, RowAdded
  <2>2. \A k : Rows(k) \subseteq 1..Len(timeline) /\ Rows(k) \subseteq Rows(k)'
    BY <2>1 DEF Rows
  <2>3. voted' = voted /\ hidden' \subseteq hidden
    BY <1>1 DEF Pages!Happens
  <2>4. \A m \in Rows("mint") : timeline'[m] = timeline[m] /\ m # last
    BY <2>1, <2>2
  <2>5. ASSUME NEW m \in Rows("mint")'
        PROVE  /\ timeline'[m].content \in Rows("content") /\ timeline'[m].content < m
               /\ \/ m \in Rows("mint")
                  \/ /\ m = last /\ timeline'[m].content = content
                     /\ \A n \in Rows("mint") : timeline[n].content # content
    <3>1. CASE m \in Rows("mint")
      <4>1. timeline[m].content \in Rows("content") /\ timeline[m].content < m
        BY <3>1 DEF RowsOK
      <4>2. timeline'[m] = timeline[m]
        BY <2>4, <3>1
      <4> QED BY <3>1, <4>1, <4>2
    <3>2. CASE m = last /\ kind = "mint"
      BY <1>1, <2>1, <2>2, <3>2
    <3> QED BY <2>1, <3>1, <3>2
  <2>6. ASSUME NEW m \in Rows("mint")', NEW n \in Rows("mint")',
               timeline'[m].content = timeline'[n].content
        PROVE  m = n
    BY <2>4, <2>5, <2>6 DEF RowsOK
  <2>7. voted' \subseteq Rows("content")' /\ hidden' \subseteq voted' \cup Rows("mint")'
    BY <2>2, <2>3 DEF RowsOK
  <2>8. RowsOK'
    BY <2>1, <2>2, <2>5, <2>6, <2>7 DEF RowsOK
  <2>9. History \in SUBSET History'
    BY <2>2, <2>3 DEF History, ItemsOf, approved
  <2> QED BY <2>8, <2>9
<1>2. ASSUME NEW i \in Rows("content"), voted' = voted \cup {i}, UNCHANGED <<timeline, hidden>>
      PROVE  RowsOK' /\ History \in SUBSET History'
  <2>1. \A k : Rows(k)' = Rows(k)
    BY <1>2 DEF Rows
  <2> QED BY <1>2, <2>1 DEF RowsOK, History, ItemsOf, approved
<1>3. ASSUME NEW i \in voted, Pages!SaveOvertaken(i)
      PROVE  RowsOK'
  <2>1. /\ UNCHANGED <<timeline, voted>> /\ hidden' \subseteq voted \cup Rows("mint")
        /\ \A k : Rows(k)' = Rows(k)
    BY <1>3, OvertakenShows
  <2> QED BY <2>1 DEF RowsOK
<1>4. ASSUME UNCHANGED Pages!rows
      PROVE  RowsOK' /\ History \in SUBSET History'
  <2>1. UNCHANGED <<timeline, voted, hidden>> /\ \A k : Rows(k)' = Rows(k)
    BY <1>4 DEF Rows, Pages!rows
  <2> QED BY <2>1 DEF RowsOK, History, ItemsOf, approved
<1> QED BY <1>1, <1>2, <1>3, <1>4 DEF RowStep

(* A step leaves no item with fewer items above it.                        *)
LEMMA RankGrows ==
    ASSUME Pages!TypeOK, Pages!TypeOK', History \in SUBSET History', NEW x \in History
    PROVE  /\ Rank(x, History) \in Nat /\ Rank(x, History)' \in Nat
           /\ Rank(x, History) <= Rank(x, History)'
<1>1. History \in SUBSET Item /\ IsFiniteSet(History)
  BY HistoryFinite
<1>2. (Pages!TypeOK => History \in SUBSET Item /\ IsFiniteSet(History))'
  BY HistoryFinite, PTL
<1>3. History' \in SUBSET Item /\ IsFiniteSet(History')
  BY <1>2
<1>4. Rank(x, History)' = Rank(x, History')
  BY DEF Rank, Above, Newer
<1>5. Above(x, History) \in SUBSET Above(x, History')
  BY DEF Above
<1>6. Rank(x, History) \in Nat
  BY <1>1, RankType
<1>7. IsFiniteSet(Above(x, History')) /\ Rank(x, History') \in Nat
  BY <1>3, RankType
<1>8. Rank(x, History) <= Rank(x, History')
  BY <1>5, <1>7, FS_Subset DEF Rank
<1> QED BY <1>4, <1>6, <1>7, <1>8

(* Taking an item out moves those behind it one place forward.             *)
LEMMA RankDrops ==
    ASSUME NEW items \in SUBSET Item, IsFiniteSet(items),
           NEW x \in items, NEW y \in items, x # y
    PROVE  Rank(x, items \ {y}) = IF Newer(y, x) THEN Rank(x, items) - 1 ELSE Rank(x, items)
<1>1. Above(x, items \ {y}) = Above(x, items) \ {y} /\ (y \in Above(x, items) <=> Newer(y, x))
  BY DEF Above
<1>2. IsFiniteSet(Above(x, items))
  BY RankType
<1>3. Cardinality(Above(x, items) \ {y})
          = IF y \in Above(x, items) THEN Cardinality(Above(x, items)) - 1
                                     ELSE Cardinality(Above(x, items))
  BY <1>2, FS_RemoveElement
<1> QED BY <1>1, <1>3 DEF Rank

-----------------------------------------------------------------------------
\* What the client knows of and will not be given: it is neither on the pages to
\* come nor was it on those that were read.
Missed == {x \in known \ seen :
             x \notin History \/ Rank(x, History) < (walk.page - 1) * walk.size}

(* The inductive invariant.  What the client misses was taken out of the   *)
(* history, or moved forward over the end of the last page read, at most   *)
(* one item for each verdict taken back; new items can only push others    *)
(* further back, to pages it has not read yet.                             *)
WalkInv ==
    /\ Pages!TypeOK
    /\ walk.at = "idle" => walk.page = 1 /\ known = {} /\ seen = {} /\ taken = 0
    /\ Cardinality(Missed) <= taken
    /\ NothingSkipped

(* The numbers the invariant compares.                                     *)
LEMMA WalkNumbers ==
    ASSUME WalkInv
    PROVE  /\ RowsOK /\ ClientOK /\ taken \in Nat
           /\ walk.at \in {"idle", "walking", "done"}
           /\ walk.page \in 1..(MaxPage + 1) /\ walk.size \in Nat \ {0}
           /\ (walk.page - 1) * walk.size \in Nat
           /\ IsFiniteSet(known \ seen) /\ IsFiniteSet(Missed)
           /\ Cardinality(known \ seen) \in Nat /\ Cardinality(Missed) \in Nat
           /\ History \in SUBSET Item /\ IsFiniteSet(History) /\ Cardinality(History) \in Nat
<1>1. RowsOK /\ ClientOK /\ taken \in 0..MaxTaken
  BY TypeSplit DEF WalkInv, TypeParts
<1>2. walk \in [at : {"idle", "walking", "done"}, page : 1..(MaxPage + 1), size : PageSizes]
  BY <1>1 DEF ClientOK
<1>3. walk.page \in 1..(MaxPage + 1) /\ walk.size \in PageSizes
  BY <1>2
<1>4. \A page \in 1..(MaxPage + 1), size \in PageSizes : (page - 1) * size \in Nat
  BY PagesAssumption
<1>5. known \ seen \in SUBSET Item /\ Missed \in SUBSET Item
  BY <1>1 DEF ClientOK, Missed
<1>6. History \in SUBSET Item
  BY HistoryFinite DEF WalkInv
<1>7. \A items \in SUBSET Item : IsFiniteSet(items) /\ Cardinality(items) \in Nat
  BY ItemsFinite
<1>8. taken \in Nat /\ walk.size \in Nat \ {0} /\ (walk.page - 1) * walk.size \in Nat
  <2>1. (walk.page - 1) * walk.size \in Nat
    BY <1>3, <1>4
  <2>2. walk.size \in Nat \ {0}
    BY <1>3, PagesAssumption
  <2>3. taken \in Nat
    <3>1. taken \in 0..MaxTaken
      BY <1>1
    <3> QED BY <3>1, PagesAssumption
  <2> QED BY <2>1, <2>2, <2>3
<1> QED BY <1>1, <1>2, <1>3, <1>5, <1>6, <1>7, <1>8

(* While nothing is taken out of the history, the client misses no more.   *)
LEMMA WalkKeptByRows ==
    ASSUME WalkInv, Pages!TypeOK', History \in SUBSET History', UNCHANGED <<walk, known, seen, taken>>
    PROVE  WalkInv'
<1> DEFINE from == (walk.page - 1) * walk.size
<1>1. from \in Nat /\ from' = from /\ IsFiniteSet(Missed)
  BY WalkNumbers
<1>2. Missed' = {x \in known \ seen : x \notin History' \/ Rank(x, History)' < from}
  BY <1>1 DEF Missed
<1>3. Missed = {x \in known \ seen : x \notin History \/ Rank(x, History) < from}
  BY DEF Missed
<1> HIDE DEF from
<1>4. ASSUME NEW x \in History, Rank(x, History)' < from
      PROVE  Rank(x, History) < from
  <2>1. /\ Rank(x, History) \in Nat /\ Rank(x, History)' \in Nat
        /\ Rank(x, History) <= Rank(x, History)'
    BY RankGrows DEF WalkInv
  <2> QED BY <1>1, <1>4, <2>1
<1>5. Missed' \in SUBSET Missed
  BY <1>2, <1>3, <1>4
<1>6. Cardinality(Missed') <= Cardinality(Missed) /\ Cardinality(Missed') \in Nat
  BY <1>1, <1>5, FS_Subset, FS_CardinalityType
<1>7. Cardinality(Missed') <= taken'
  BY <1>6, WalkNumbers DEF WalkInv
<1> QED BY <1>7 DEF WalkInv, NothingSkipped

(* An item that is taken out makes the client miss at most one: the item   *)
(* itself, or the one that moves from the next page to the last one read.  *)
LEMMA MissedOne ==
    ASSUME WalkInv, Pages!TypeOK', UNCHANGED <<walk, known, seen>>,
           NEW y \in History, History' = History \ {y}
    PROVE  \E z : Missed' \in SUBSET (Missed \cup {z})
<1> DEFINE from == (walk.page - 1) * walk.size
           lost == {x \in known \ seen : x \in History /\ from <= Rank(x, History)
                                         /\ (x = y \/ (Newer(y, x) /\ Rank(x, History) = from))}
<1>1. from \in Nat /\ from' = from /\ History \in SUBSET Item /\ IsFiniteSet(History)
  BY WalkNumbers
<1>2. \A x \in History : Rank(x, History) \in Nat
  BY <1>1, RankType
<1>3. Missed' = {x \in known \ seen : x \notin History' \/ Rank(x, History)' < from}
  BY <1>1 DEF Missed
<1>4. Missed = {x \in known \ seen : x \notin History \/ Rank(x, History) < from}
  BY DEF Missed
<1> HIDE DEF from
<1>5. ASSUME NEW x \in Missed', x \notin Missed
      PROVE  x \in lost
  <2>1. x \in known \ seen /\ x \in History /\ from <= Rank(x, History)
    BY <1>1, <1>2, <1>3, <1>4, <1>5
  <2>2. CASE x # y
    <3>1. Rank(x, History)' = Rank(x, History \ {y})
      BY DEF Rank, Above, Newer
    <3>2. Rank(x, History \ {y})
              = IF Newer(y, x) THEN Rank(x, History) - 1 ELSE Rank(x, History)
      BY <1>1, <2>1, <2>2, RankDrops
    <3>3. Rank(x, History)' < from
      BY <1>3, <2>1, <2>2
    <3> QED BY <1>1, <1>2, <2>1, <3>1, <3>2, <3>3
  <2> QED BY <2>1, <2>2
<1>6. ASSUME NEW x \in lost, NEW z \in lost
      PROVE  x = z
  <2>1. x \in Item /\ z \in Item /\ y \in Item /\ x \in History /\ z \in History
    BY <1>1
  <2>2. \A v \in lost : v # y => Rank(y, History) < from
    BY <1>1, RankRises
  <2>3. \A v \in lost : v = y => from <= Rank(y, History)
    OBVIOUS
  <2>4. CASE x # y /\ z # y
    <3>1. Rank(x, History) = from /\ Rank(z, History) = from
      BY <2>4
    <3>2. ~Newer(x, z) /\ ~Newer(z, x)
      BY <1>1, <2>1, <3>1, RankRises
    <3> QED BY <2>1, <3>2, NewerOrder
  <2>5. ~(Rank(y, History) < from /\ from <= Rank(y, History))
    BY <1>1, <1>2
  <2> QED BY <2>2, <2>3, <2>4, <2>5
<1> HIDE DEF lost
<1>7. CASE lost = {}
  <2>1. Missed' \in SUBSET (Missed \cup {y})
    BY <1>5, <1>7
  <2> QED BY <2>1
<1>8. ASSUME NEW z \in lost
      PROVE  \E v : Missed' \in SUBSET (Missed \cup {v})
  <2>1. Missed' \in SUBSET (Missed \cup {z})
    BY <1>5, <1>6, <1>8
  <2> QED BY <2>1
<1> QED BY <1>7, <1>8

(* An overtaken save that takes a verdict back is counted while the client *)
(* walks.  Before that it knows of nothing, and after it misses the same.  *)
LEMMA WalkKeptByLoss ==
    ASSUME WalkInv, Pages!TypeOK', NEW i \in voted, Pages!SaveOvertaken(i), i \in hidden' \ hidden,
           NEW y \in History, History' = History \ {y}
    PROVE  WalkInv'
<1>1. UNCHANGED <<walk, known, seen>>
  BY DEF Pages!SaveOvertaken, Pages!client
<1>2. taken' = IF walk.at = "walking" THEN taken + 1 ELSE taken
  BY DEF Pages!SaveOvertaken
<1>3. /\ taken \in Nat /\ walk.at \in {"idle", "walking", "done"}
      /\ IsFiniteSet(known \ seen) /\ IsFiniteSet(Missed)
      /\ Cardinality(known \ seen) \in Nat /\ Cardinality(Missed) \in Nat
  BY WalkNumbers
<1>4. Missed' \in SUBSET (known \ seen)
  BY <1>1 DEF Missed
<1>5. CASE walk.at = "walking"
  <2>1. PICK z : Missed' \in SUBSET (Missed \cup {z})
    BY <1>1, MissedOne
  <2>2. IsFiniteSet(Missed \cup {z}) /\ Cardinality(Missed \cup {z}) <= Cardinality(Missed) + 1
    <3>1. /\ IsFiniteSet(Missed \cup {z})
          /\ Cardinality(Missed \cup {z})
                 = IF z \in Missed THEN Cardinality(Missed) ELSE Cardinality(Missed) + 1
      BY <1>3, FS_AddElement
    <3> QED BY <1>3, <3>1
  <2>3. /\ Cardinality(Missed') <= Cardinality(Missed \cup {z})
        /\ Cardinality(Missed') \in Nat /\ Cardinality(Missed \cup {z}) \in Nat
    BY <2>1, <2>2, FS_Subset, FS_CardinalityType
  <2>4. Cardinality(Missed') <= taken'
    BY <1>2, <1>3, <1>5, <2>2, <2>3 DEF WalkInv
  <2> QED BY <1>1, <1>5, <2>4 DEF WalkInv, NothingSkipped
<1>6. CASE walk.at = "idle"
  <2>1. known \ seen = {} /\ taken' = 0 /\ taken = 0
    BY <1>2, <1>6 DEF WalkInv
  <2>2. Missed' = {}
    BY <1>4, <2>1
  <2>3. Cardinality(Missed') <= taken'
    BY <2>1, <2>2, FS_EmptySet
  <2> QED BY <1>1, <1>6, <2>1, <2>3 DEF WalkInv, NothingSkipped
<1>7. CASE walk.at = "done"
  <2>1. Cardinality(known \ seen) <= taken /\ taken' = taken
    BY <1>2, <1>7 DEF WalkInv, NothingSkipped
  <2>2. Cardinality(Missed') <= Cardinality(known \ seen) /\ Cardinality(Missed') \in Nat
    BY <1>3, <1>4, FS_Subset, FS_CardinalityType
  <2>3. Cardinality(Missed') <= taken'
    BY <1>3, <2>1, <2>2
  <2> QED BY <1>1, <1>7, <2>1, <2>3 DEF WalkInv, NothingSkipped
<1> QED BY <1>3, <1>5, <1>6, <1>7

(* The client misses nothing when it asks for the first page,              *)
LEMMA WalkKeptByOpen ==
    ASSUME WalkInv, Pages!OpenHistory
    PROVE  WalkInv'
<1>1. /\ walk.at = "idle" /\ walk' = [walk EXCEPT !.at = "walking"] /\ known' = History
      /\ UNCHANGED <<timeline, voted, hidden, seen, taken>>
  BY SameOperators DEF Same, Pages!OpenHistory, Pages!rows
<1>2. /\ RowsOK /\ ClientOK /\ walk.page = 1 /\ walk.size \in Nat \ {0} /\ taken \in 0..MaxTaken
      /\ taken = 0
  BY <1>1, WalkNumbers, TypeSplit DEF WalkInv, TypeParts
<1>3. UNCHANGED History /\ \A k : Rows(k)' = Rows(k)
  BY <1>1 DEF History, ItemsOf, Rows, approved
<1>4. History \in SUBSET Item /\ IsFiniteSet(History)
  BY WalkNumbers
<1>5. RowsOK'
  BY <1>1, <1>2, <1>3 DEF RowsOK
<1>6. walk'.at = "walking" /\ walk'.page = 1 /\ walk'.size = walk.size /\ ClientOK'
  BY <1>1, <1>2, <1>4 DEF ClientOK
<1>7. Pages!TypeOK'
  <2>1. TypeParts'
    BY TypeSplit, PTL
  <2> QED BY <1>1, <1>2, <1>5, <1>6, <2>1 DEF TypeParts
<1>8. \A x \in History : Rank(x, History)' \in Nat
  BY <1>3, <1>4, RankType DEF Rank, Above, Newer
<1>9. (walk'.page - 1) * walk'.size = 0
  <2>1. walk'.page - 1 = 0
    BY <1>6
  <2> QED BY <1>2, <1>6, <2>1
<1>10. Missed' = {}
  <2>1. Missed' = {x \in known' \ seen' : x \notin History' \/ Rank(x, History)' < 0}
    BY <1>9 DEF Missed
  <2>2. \A x \in known' : x \in History /\ x \in History' /\ ~(Rank(x, History)' < 0)
    BY <1>1, <1>3, <1>8
  <2> QED BY <2>1, <2>2
<1>11. Cardinality(Missed') <= taken'
  BY <1>1, <1>2, <1>10, FS_EmptySet
<1> QED BY <1>6, <1>7, <1>11 DEF WalkInv, NothingSkipped

(* and no more when it reads the next one: after a page that is not full,  *)
(* every rank lies before the next page.                                   *)
LEMMA WalkKeptByRead ==
    ASSUME WalkInv, Pages!ReadPage
    PROVE  WalkInv'
<1> DEFINE p     == Lesser(walk.page, MaxPage)
           items == HistoryPage(walk.page, walk.size)
<1>1. /\ seen' = seen \cup Range(items)
      /\ walk' = [walk EXCEPT !.at   = IF Len(items) < walk.size THEN "done" ELSE "walking",
                              !.page = Lesser(walk.page + 1, MaxPage + 1)]
      /\ UNCHANGED <<timeline, voted, hidden, known, taken>>
  BY SameOperators DEF Same, Pages!ReadPage, Pages!rows
<1>2. /\ RowsOK /\ ClientOK /\ taken \in 0..MaxTaken /\ taken \in Nat
      /\ IsFiniteSet(Missed) /\ Cardinality(Missed) \in Nat
  BY WalkNumbers, TypeSplit DEF WalkInv, TypeParts
<1>3. walk.page \in 1..(MaxPage + 1) /\ walk.size \in Nat \ {0}
  BY WalkNumbers
<1>4. /\ Range(items) \subseteq Item
      /\ \A x \in History :
            (p - 1) * walk.size <= Rank(x, History) /\ Rank(x, History) < p * walk.size
                => x \in Range(items)
      /\ Len(items) < walk.size => Cardinality(History) < p * walk.size
  BY <1>3, PageHolds DEF WalkInv
<1>5. p \in 1..MaxPage /\ p <= walk.page /\ Lesser(walk.page + 1, MaxPage + 1) = p + 1
  BY <1>3, PagesAssumption DEF Lesser
<1>6. Missed = {x \in known \ seen : x \notin History
                                     \/ Rank(x, History) < (walk.page - 1) * walk.size}
  BY DEF Missed
<1> HIDE DEF p, items
<1>7. /\ walk'.at = IF Len(items) < walk.size THEN "done" ELSE "walking"
      /\ walk'.page = p + 1 /\ walk'.size = walk.size
      /\ ClientOK'
  <2>1. walk \in [at : {"idle", "walking", "done"}, page : 1..(MaxPage + 1), size : PageSizes]
    BY <1>2 DEF ClientOK
  <2>2. walk' = [walk EXCEPT !.at   = IF Len(items) < walk.size THEN "done" ELSE "walking",
                             !.page = p + 1]
    BY <1>1, <1>5
  <2>3. p + 1 \in 1..(MaxPage + 1)
    BY <1>5, PagesAssumption
  <2>4. /\ walk'.at = IF Len(items) < walk.size THEN "done" ELSE "walking"
        /\ walk'.page = p + 1 /\ walk'.size = walk.size
        /\ walk' \in [at : {"idle", "walking", "done"}, page : 1..(MaxPage + 1), size : PageSizes]
    BY <2>1, <2>2, <2>3
  <2> QED BY <1>1, <1>2, <1>4, <2>4 DEF ClientOK
<1>8. UNCHANGED History /\ \A k : Rows(k)' = Rows(k)
  BY <1>1 DEF History, ItemsOf, Rows, approved
<1>9. Pages!TypeOK'
  <2>1. TypeParts'
    BY TypeSplit, PTL
  <2>2. RowsOK'
    BY <1>1, <1>2, <1>8 DEF RowsOK
  <2> QED BY <1>1, <1>2, <1>7, <2>1, <2>2 DEF TypeParts
<1>10. \A x \in History :
           /\ Rank(x, History) \in Nat /\ Cardinality(History) \in Nat
           /\ Rank(x, History) < Cardinality(History) /\ Rank(x, History)' = Rank(x, History)
  BY <1>8, WalkNumbers, RankType DEF Rank, Above, Newer
<1>11. /\ (walk.page - 1) * walk.size \in Nat /\ p * walk.size \in Nat
       /\ (p - 1) * walk.size \in Nat /\ (p - 1) * walk.size <= (walk.page - 1) * walk.size
  <2>1. \A a, b, c \in Nat : a <= b => a * c <= b * c
    OBVIOUS
  <2>2. p - 1 \in Nat /\ walk.page - 1 \in Nat /\ p - 1 <= walk.page - 1
    BY <1>3, <1>5
  <2> QED BY <1>3, <1>5, <2>1, <2>2
<1>12. ASSUME NEW x \in known \ seen',
              x \notin History \/ Rank(x, History) < p * walk.size
       PROVE  x \in Missed
  <2>1. x \in known \ seen
    BY <1>1
  <2>2. CASE x \in History
    <3>1. x \notin Range(items)
      BY <1>1
    <3>2. Rank(x, History) < (p - 1) * walk.size
      BY <1>4, <1>10, <1>11, <1>12, <2>2, <3>1
    <3> QED BY <1>6, <1>10, <1>11, <2>1, <2>2, <3>2
  <2> QED BY <1>6, <2>1, <2>2
<1>13. Missed' \in SUBSET Missed
  <2>1. walk'.page - 1 = p
    BY <1>5, <1>7
  <2>2. Missed' = {x \in known \ seen' : x \notin History \/ Rank(x, History)' < p * walk.size}
    BY <1>1, <1>7, <1>8, <2>1 DEF Missed
  <2> QED BY <1>10, <1>12, <2>2
<1>14. Cardinality(Missed') <= taken'
  <2>1. Cardinality(Missed') <= Cardinality(Missed) /\ Cardinality(Missed') \in Nat
    BY <1>2, <1>13, FS_Subset, FS_CardinalityType
  <2> QED BY <1>1, <1>2, <2>1 DEF WalkInv
<1>15. NothingSkipped'
  <2> SUFFICES ASSUME walk'.at = "done"
               PROVE  Cardinality(known \ seen') <= taken
    BY <1>1 DEF NothingSkipped
  <2>1. Cardinality(History) < p * walk.size
    BY <1>4, <1>7
  <2>2. known \ seen' \in SUBSET Missed
    BY <1>10, <1>11, <1>12, <2>1
  <2>3. Cardinality(known \ seen') <= Cardinality(Missed) /\ Cardinality(known \ seen') \in Nat
    BY <1>2, <2>2, FS_Subset, FS_CardinalityType
  <2> QED BY <1>2, <2>3 DEF WalkInv
<1>16. walk'.at # "idle"
  BY <1>7
<1> QED BY <1>9, <1>14, <1>15, <1>16 DEF WalkInv

(* Every step keeps the invariant.                                         *)
LEMMA WalkStep == WalkInv /\ [Pages!Next]_(Pages!vars) => WalkInv'
<1> SUFFICES ASSUME WalkInv, [Pages!Next]_(Pages!vars)
             PROVE  WalkInv'
  OBVIOUS
<1>1. RowsOK /\ ClientOK /\ taken \in 0..MaxTaken
  BY TypeSplit DEF WalkInv, TypeParts
<1>2. RowsOK' /\ (History \in SUBSET History' \/ \E i \in voted : Pages!SaveOvertaken(i))
  <2>1. RowStep
    BY <1>1, RowSteps
  <2> QED BY <1>1, <2>1, RowsKept
<1>3. ASSUME UNCHANGED <<walk, known, seen>>, taken' \in 0..MaxTaken
      PROVE  Pages!TypeOK'
  <2>1. TypeParts'
    BY TypeSplit, PTL
  <2> QED BY <1>1, <1>2, <1>3, <2>1 DEF TypeParts, ClientOK
<1>4. ASSUME NEW i \in voted, Pages!SaveOvertaken(i)
      PROVE  WalkInv'
  <2>1. /\ UNCHANGED <<walk, known, seen>>
        /\ IF walk.at = "walking" /\ i \in hidden' \ hidden
           THEN taken < MaxTaken /\ taken' = taken + 1
           ELSE UNCHANGED taken
    BY <1>4 DEF Pages!SaveOvertaken, Pages!client
  <2>2. taken' \in 0..MaxTaken
    BY <1>1, <2>1, PagesAssumption
  <2>3. Pages!TypeOK'
    BY <1>3, <2>1, <2>2
  <2>4. \/ History \in SUBSET History' /\ (i \notin hidden' \/ i \in hidden)
        \/ /\ i \in hidden' \ hidden
           /\ [row |-> i, part |-> "review"] \in History
           /\ History' = History \ {[row |-> i, part |-> "review"]}
    BY <1>1, <1>4, OvertakenShows
  <2> QED BY <1>4, <2>1, <2>3, <2>4, WalkKeptByRows, WalkKeptByLoss
<1>5. ASSUME History \in SUBSET History', UNCHANGED <<walk, known, seen, taken>>
      PROVE  WalkInv'
  BY <1>1, <1>3, <1>5, WalkKeptByRows
<1>6. ASSUME Pages!Event \/ UNCHANGED Pages!vars, ~\E i \in voted : Pages!SaveOvertaken(i)
      PROVE  WalkInv'
  <2>1. UNCHANGED <<walk, known, seen, taken>>
    BY <1>6 DEF Pages!Event, Pages!RegisterContent, Pages!VerifyFile, Pages!CastBallot,
       Pages!Mint, Pages!Happens, Pages!Approve, Pages!SaveOvertaken, Pages!client, Pages!vars
  <2> QED BY <1>2, <1>5, <1>6, <2>1
<1> QED BY <1>4, <1>6, WalkKeptByOpen, WalkKeptByRead DEF Pages!Next

(* A user starts with no rows and the client with no page.                 *)
LEMMA WalkInit == Pages!Init => WalkInv
<1> SUFFICES ASSUME Pages!Init
             PROVE  WalkInv
  OBVIOUS
<1>1. /\ timeline = <<>> /\ voted = {} /\ hidden = {} /\ known = {} /\ seen = {} /\ taken = 0
      /\ walk \in [at : {"idle"}, page : {1}, size : PageSizes]
  BY DEF Pages!Init
<1>2. timeline \in Seq(Row) /\ Len(timeline) = 0 /\ \A k : Rows(k) = {}
  BY <1>1 DEF Rows
<1>3. RowsOK /\ ClientOK /\ taken \in 0..MaxTaken
  BY <1>1, <1>2, PagesAssumption DEF RowsOK, ClientOK
<1>4. Missed = {} /\ Cardinality(Missed) = 0
  BY <1>1, FS_EmptySet DEF Missed
<1> QED BY <1>1, <1>3, <1>4, TypeSplit DEF WalkInv, TypeParts, NothingSkipped

(* The invariant holds in every behaviour.                                 *)
THEOREM WalkInvariance == Pages!Spec => []WalkInv
BY WalkInit, WalkStep, PTL DEF Pages!Spec

(* A mint always belongs to an earlier content, and to no other mint; what *)
(* a client knows of and was given are items.                              *)
THEOREM ListsTypeCorrect == Pages!Spec => []Pages!TypeOK
<1>1. WalkInv => Pages!TypeOK
  BY DEF WalkInv
<1> QED BY <1>1, WalkInvariance, PTL

(* AnalysisHistoryView and _serialize_user_detail load only the newest     *)
(* page * size rows of each table, and lose nothing of a page by it.       *)
THEOREM PagesAreExact == Pages!Spec => []PagesExact
<1>1. Pages!TypeOK => PagesExact
  <2> SUFFICES ASSUME Pages!TypeOK
               PROVE  PagesExact
    OBVIOUS
  <2>1. PageSizes \subseteq Nat \ {0}
    BY PagesAssumption
  <2> QED BY <2>1, HistoryExact, ActivitiesExact DEF PagesExact
<1> QED BY <1>1, ListsTypeCorrect, PTL

(* A client that reads AnalysisHistoryView page after page, until one is   *)
(* not full, was given everything there was when it began, except at most  *)
(* one item for each verdict that was taken back meanwhile.                *)
THEOREM NoItemSkipped == Pages!Spec => []NothingSkipped
<1>1. WalkInv => NothingSkipped
  BY DEF WalkInv
<1> QED BY <1>1, WalkInvariance, PTL
=============================================================================
