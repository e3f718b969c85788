--------------------------- MODULE MembersProofs ---------------------------
(***************************************************************************)
(* What requests over the members of workspaces may not do, proved for any *)
(* people, any requests and any workspaces: nobody has a role that was not *)
(* chosen for him, a workspace keeps its owner, and an invitation that is  *)
(* closed lets nobody in who comes later.                                  *)
(***************************************************************************)
EXTENDS Members, Counting

-----------------------------------------------------------------------------
(* The invariant *)

Rows == [role: Roles \cup {"NONE"}, rank: Nat]
Invitations == [status: Statuses, role: Grantable, token: Nat, over: BOOLEAN]
OnMembers == {"invite", "update", "remove", "revoke"}
Ops == OnMembers \cup {"load", "signup", "accept"}
Records ==
  [user: Users \cup {NoUser}, op: Ops, target: Users \cup {NoUser},
   role: Grantable, token: Nat, ws: Nat, as: Roles \cup {"NONE"}, rank: Nat,
   todo: SUBSET [ws: Workspaces, role: Grantable]]
OnRow == {"add", "write", "update", "remove", "expire", "accept"}
InWorkspace == {"role", "handler"} \cup OnRow
Places == {"new", "done", "context", "pending", "invited", "joining", "create"} \cup InWorkspace

RowsFit ==
  /\ known \subseteq Users /\ made \subseteq Workspaces /\ clock \in Nat
  /\ founder \in [Workspaces -> Users \cup {NoUser}]
  /\ member \in [Workspaces -> [Users -> Rows]]
  /\ invitation \in [Workspaces -> [Users -> Invitations]]

SeenFits ==
  /\ named \in [Workspaces -> SUBSET Users]
  /\ chosen \in [Workspaces -> [Users -> SUBSET Grantable]]
  /\ late \in [Workspaces -> [Users -> SUBSET Requests]]

\* A row has a rank, a workspace that exists and a user who has signed in.
MembersFit ==
  /\ \A w \in made : founder[w] \in Users
  /\ \A w \in Workspaces, u \in Users :
       /\ (member[w][u].rank = 0) = (member[w][u].role = "NONE")
       /\ IsMember(w, u) => w \in made /\ u \in known

\* An invitation names the user, and a role a manager chose for him.
InvitationsFit ==
  \A w \in Workspaces, u \in Users :
    invitation[w][u].status # "NONE" =>
      w \in made /\ u \in named[w] /\ invitation[w][u].role \in chosen[w][u]

\* Request q has read an invitation of u to w that was open since it began.
Invited(q, w, u, role) ==
  /\ w \in made /\ u \in named[w] /\ role \in chosen[w][u]
  /\ invitation[w][u].status # "NONE"
  /\ IsOpen(w, u) \/ q \in late[w][u]

\* What a request at a place has read, and still may use.
UseFits(q, place, r) ==
  /\ place \notin {"new", "done"} => r.user \in known
  /\ place \in InWorkspace => r.ws \in made
  /\ r.op \in OnMembers \/ place \in OnRow => r.target \in Users
  /\ place = "add" => r.target \in known
  /\ place \in {"update", "remove"} /\ r.target = founder[r.ws] =>
       r.target \in named[r.ws]
  /\ place = "expire" => invitation[r.ws][r.target].status # "NONE"
  /\ place = "joining" => \A i \in r.todo : Invited(q, i.ws, r.user, i.role)
  /\ place = "accept" => r.target = r.user /\ Invited(q, r.ws, r.user, r.role)

RequestsFit ==
  /\ pc \in [Requests -> Places]
  /\ req \in [Requests -> Records]
  /\ \A q \in Requests : UseFits(q, pc[q], req[q])

MembersInv ==
  RowsFit /\ SeenFits /\ MembersFit /\ InvitationsFit /\ RequestsFit /\ RolesHold

-----------------------------------------------------------------------------
(* What is read *)

LEMMA MembersParts ==
  ASSUME MembersInv
  PROVE  /\ known \subseteq Users /\ made \subseteq Workspaces /\ clock \in Nat
         /\ founder \in [Workspaces -> Users \cup {NoUser}]
         /\ member \in [Workspaces -> [Users -> Rows]]
         /\ invitation \in [Workspaces -> [Users -> Invitations]]
         /\ named \in [Workspaces -> SUBSET Users]
         /\ chosen \in [Workspaces -> [Users -> SUBSET Grantable]]
         /\ late \in [Workspaces -> [Users -> SUBSET Requests]]
         /\ pc \in [Requests -> Places] /\ req \in [Requests -> Records]
         /\ \A q \in Requests : UseFits(q, pc[q], req[q])
         /\ RolesHold /\ MembersFit /\ InvitationsFit /\ RowsFit /\ SeenFits
         /\ RequestsFit
BY DEF MembersInv, RowsFit, SeenFits, RequestsFit

\* A membership of lowest rank exists, and is what PrimaryOf chooses.
LEMMA PrimaryIsOne ==
  ASSUME MembersInv, NEW u \in Users, Memberships(u) # {}
  PROVE  PrimaryOf(u) \in Memberships(u)
<1> DEFINE ranks == {member[w][u].rank : w \in Memberships(u)}
<1>1. ranks \subseteq Nat /\ ranks # {}
  BY MembersParts DEF Memberships, Rows
<1>2. PICK n \in ranks : \A m \in ranks : n <= m
  <2> HIDE DEF ranks
  <2>1. QED
    BY <1>1, LeastNumber
<1>3. PICK w \in Memberships(u) : member[w][u].rank = n
  BY <1>2
<1>4. \A x \in Memberships(u) : member[w][u].rank <= member[x][u].rank
  BY <1>2, <1>3
<1>5. QED
  BY <1>4 DEF PrimaryOf

LEMMA FinishedFits ==
  ASSUME NEW q
  PROVE  NoRequest \in Records /\ UseFits(q, "done", NoRequest)
BY DEF NoRequest, Records, UseFits, Ops, OnMembers, OnRow, InWorkspace, Roles, Grantable

-----------------------------------------------------------------------------
(* What a step leaves to the other requests *)

\* What managers have said is not unsaid, a workspace keeps its founder, and no
\* invitation is deleted.
Grows ==
  /\ known \subseteq known' /\ made \subseteq made'
  /\ \A w \in made : founder'[w] = founder[w] /\ named[w] \subseteq named'[w]
  /\ \A w \in Workspaces, u \in Users :
       /\ chosen[w][u] \subseteq chosen'[w][u]
       /\ invitation[w][u].status # "NONE" => invitation'[w][u].status # "NONE"

\* An invitation read while open is open yet, or was closed meanwhile.
StillInvited(q) ==
  \A w \in Workspaces, u \in Users :
    IsOpen(w, u) \/ q \in late[w][u] => IsOpen(w, u)' \/ q \in late'[w][u]

LEMMA RequestStays ==
  ASSUME MembersInv, Grows, NEW r \in Requests,
         pc[r] \notin {"new", "done"} => StillInvited(r),
         pc'[r] = pc[r], req'[r] = req[r]
  PROVE  UseFits(r, pc[r], req[r])'
<1> DEFINE u == req[r].user
           t == req[r].target
           w == req[r].ws
<1>1. UseFits(r, pc[r], req[r]) /\ req[r] \in Records
  BY MembersParts
<1>2. /\ known \subseteq known' /\ made \subseteq made' /\ made \subseteq Workspaces
      /\ known \subseteq Users
  BY MembersParts DEF Grows
<1>3. ASSUME NEW x, NEW role, u \in Users, Invited(r, x, u, role), StillInvited(r)
      PROVE  Invited(r, x, u, role)'
  <2>1. /\ x \in made /\ x \in Workspaces /\ u \in named[x] /\ role \in chosen[x][u]
        /\ IsOpen(x, u) \/ r \in late[x][u]
        /\ invitation[x][u].status # "NONE"
    BY <1>2, <1>3 DEF Invited
  <2>2. /\ x \in made' /\ u \in named'[x] /\ role \in chosen'[x][u]
        /\ invitation'[x][u].status # "NONE"
    BY <1>2, <1>3, <2>1 DEF Grows
  <2>3. IsOpen(x, u)' \/ r \in late'[x][u]
    BY <1>3, <2>1 DEF StillInvited
  <2>4. QED
    BY <2>2, <2>3 DEF Invited
<1>4. pc'[r] \notin {"new", "done"} => req'[r].user \in known'
  BY <1>1, <1>2 DEF UseFits
<1>5. pc'[r] \in InWorkspace => req'[r].ws \in made'
  BY <1>1, <1>2 DEF UseFits
<1>6. /\ req'[r].op \in OnMembers \/ pc'[r] \in OnRow => req'[r].target \in Users
      /\ pc'[r] = "add" => req'[r].target \in known'
  BY <1>1, <1>2 DEF UseFits
<1>7. ASSUME pc'[r] \in {"update", "remove"}, req'[r].target = founder'[req'[r].ws]
      PROVE  req'[r].target \in named'[req'[r].ws]
  <2>1. w \in made
    BY <1>1, <1>7 DEF UseFits, InWorkspace, OnRow
  <2>2. founder'[w] = founder[w] /\ named[w] \subseteq named'[w]
    BY <2>1 DEF Grows
  <2>3. QED
    BY <1>1, <1>7, <2>2 DEF UseFits
<1>8. ASSUME pc'[r] = "joining", NEW i \in req'[r].todo
      PROVE  Invited(r, i.ws, u, i.role)'
  <2>1. Invited(r, i.ws, u, i.role) /\ u \in Users /\ StillInvited(r)
    BY <1>1, <1>2, <1>8 DEF UseFits
  <2>2. QED
    BY <1>3, <2>1
<1>9. ASSUME pc'[r] = "accept"
      PROVE  req'[r].target = req'[r].user /\ Invited(r, w, u, req[r].role)'
  <2>1. /\ Invited(r, w, u, req[r].role) /\ u \in Users /\ StillInvited(r)
        /\ req[r].target = req[r].user
    BY <1>1, <1>2, <1>9 DEF UseFits
  <2>2. QED
    BY <1>3, <2>1
<1>10. ASSUME pc'[r] = "expire" PROVE invitation'[w][t].status # "NONE"
  <2>1. w \in Workspaces /\ t \in Users /\ invitation[w][t].status # "NONE"
    BY <1>1, <1>2, <1>10 DEF UseFits, InWorkspace, OnRow
  <2>2. QED
    BY <2>1 DEF Grows
<1>11. QED
  BY <1>4, <1>5, <1>6, <1>7, <1>8, <1>9, <1>10 DEF UseFits

LEMMA InvitedStays ==
  ASSUME MembersInv, Grows, NEW q \in Requests, StillInvited(q),
         NEW w, NEW u \in Users, NEW role, Invited(q, w, u, role)
  PROVE  Invited(q, w, u, role)'
<1>1. /\ w \in made /\ w \in Workspaces /\ u \in named[w] /\ role \in chosen[w][u]
      /\ invitation[w][u].status # "NONE"
      /\ IsOpen(w, u) \/ q \in late[w][u]
  BY MembersParts DEF Invited
<1>2. /\ w \in made' /\ u \in named'[w] /\ role \in chosen'[w][u]
      /\ invitation'[w][u].status # "NONE"
  BY <1>1 DEF Grows
<1>3. IsOpen(w, u)' \/ q \in late'[w][u]
  BY <1>1 DEF StillInvited
<1>4. QED
  BY <1>2, <1>3 DEF Invited

\* Who becomes a member is let in.
LetsIn ==
  \A w \in made, u \in Users :
    ~ IsMember(w, u) /\ IsMember(w, u)' =>
      \/ IsOpen(w, u)
      \/ \E q \in late[w][u] : pc[q] # "done" /\ req[q].user = u
      \/ \E q \in Requests : pc[q] = "add" /\ req[q].target = u /\ req[q].ws = w

LEMMA RequestsStep ==
  ASSUME MembersInv, Grows,
         \A r \in Requests : pc[r] \notin {"new", "done"} => StillInvited(r),
         NEW q \in Requests, NEW place \in Places, NEW rec \in Records,
         pc' = [pc EXCEPT ![q] = place], req' = [req EXCEPT ![q] = rec],
         UseFits(q, pc[q], req[q])'
  PROVE  RequestsFit'
<1>1. /\ pc' \in [Requests -> Places] /\ req' \in [Requests -> Records]
      /\ \A r \in Requests : r # q => pc'[r] = pc[r] /\ req'[r] = req[r]
  BY MembersParts
<1>2. ASSUME NEW r \in Requests PROVE UseFits(r, pc[r], req[r])'
  <2>1. CASE r = q
    BY <2>1
  <2>2. CASE r # q
    BY <1>1, <2>2, RequestStays
  <2>3. QED
    BY <2>1, <2>2
<1>3. QED
  BY <1>1, <1>2 DEF RequestsFit

\* A step that reads and goes on.
LEMMA ReadStep ==
  ASSUME MembersInv, UNCHANGED <<rows, seen>>, NEW q \in Requests,
         NEW place \in Places, NEW rec \in Records,
         pc' = [pc EXCEPT ![q] = place], req' = [req EXCEPT ![q] = rec],
         UseFits(q, place, rec)
  PROVE  MembersInv' /\ LetsIn
<1>1. UNCHANGED <<known, made, founder, member, invitation, clock, named, chosen, late>>
  BY DEF rows, seen
<1>2. RowsFit' /\ SeenFits' /\ MembersFit' /\ InvitationsFit' /\ RolesHold'
  BY <1>1, MembersParts DEF RowsFit, SeenFits, MembersFit, InvitationsFit, RolesHold,
     RolesAreChosen, OwnerKept, IsMember
<1>3. Grows /\ \A r \in Requests : StillInvited(r)
  BY <1>1 DEF Grows, StillInvited, IsOpen
<1>4. pc'[q] = place /\ req'[q] = rec
  BY MembersParts
<1>5. UseFits(q, pc[q], req[q])'
  BY <1>1, <1>4 DEF UseFits, Invited, IsOpen
<1>6. RequestsFit'
  BY <1>3, <1>5, RequestsStep
<1>7. LetsIn
  BY <1>1 DEF LetsIn, IsMember
<1>8. QED
  BY <1>2, <1>6, <1>7 DEF MembersInv

\* The answer that follows a write.
LEMMA FinishStep ==
  ASSUME MembersInv, Grows,
         \A r \in Requests : pc[r] \notin {"new", "done"} => StillInvited(r),
         NEW q \in Requests, Finish(q)
  PROVE  RequestsFit'
<1>1. /\ pc' = [pc EXCEPT ![q] = "done"] /\ req' = [req EXCEPT ![q] = NoRequest]
      /\ "done" \in Places
  BY DEF Finish, Goto, Places
<1>2. pc'[q] = "done" /\ req'[q] = NoRequest
  BY <1>1, MembersParts
<1>3. UseFits(q, pc[q], req[q])'
  BY <1>2 DEF UseFits, NoRequest, OnMembers, OnRow, InWorkspace
<1>4. QED
  BY <1>1, <1>3, FinishedFits, RequestsStep

-----------------------------------------------------------------------------
(* Writes *)

\* A row is written with a role that was chosen, or none.
LEMMA MemberStep ==
  ASSUME MembersInv, NEW w \in made, NEW u \in known, NEW row \in Rows,
         (row.rank = 0) = (row.role = "NONE"),
         member' = [member EXCEPT ![w][u] = row],
         UNCHANGED <<known, made, founder>>, Grows,
         row.role = "NONE" \/ row.role \in chosen'[w][u],
         u = founder[w] => u \in named'[w]
  PROVE  /\ member' \in [Workspaces -> [Users -> Rows]]
         /\ MembersFit' /\ RolesHold'
         /\ \A x \in Workspaces, v \in Users :
              x # w \/ v # u => member'[x][v] = member[x][v]
<1>1. /\ w \in Workspaces /\ u \in Users
      /\ member \in [Workspaces -> [Users -> Rows]]
  BY MembersParts
<1>2. /\ member' \in [Workspaces -> [Users -> Rows]] /\ member'[w][u] = row
      /\ \A x \in Workspaces, v \in Users :
           x # w \/ v # u => member'[x][v] = member[x][v]
  BY <1>1
<1>3. MembersFit'
  <2>1. ASSUME NEW x \in Workspaces, NEW v \in Users
        PROVE  /\ (member'[x][v].rank = 0) = (member'[x][v].role = "NONE")
               /\ IsMember(x, v)' => x \in made' /\ v \in known'
    <3>1. CASE x = w /\ v = u
      BY <1>2, <3>1
    <3>2. CASE x # w \/ v # u
      BY <1>2, <3>2, MembersParts DEF MembersFit, IsMember
    <3>3. QED
      BY <3>1, <3>2
  <2>2. \A x \in made' : founder'[x] \in Users
    BY MembersParts DEF MembersFit
  <2>3. QED
    BY <2>1, <2>2 DEF MembersFit
<1>4. RolesAreChosen'
  <2>1. ASSUME NEW x \in made', NEW v \in Users, IsMember(x, v)'
        PROVE  \/ member'[x][v].role \in chosen'[x][v]
               \/ member'[x][v].role = "OWNER" /\ v = founder'[x]
    <3>1. x \in made /\ x \in Workspaces
      BY MembersParts
    <3>2. CASE x = w /\ v = u
      BY <1>2, <2>1, <3>2 DEF IsMember
    <3>3. CASE x # w \/ v # u
      <4>1. member'[x][v] = member[x][v]
        BY <1>2, <3>1, <3>3
      <4>2. \/ member[x][v].role \in chosen[x][v]
            \/ member[x][v].role = "OWNER" /\ v = founder[x]
        BY <2>1, <3>1, <4>1, MembersParts DEF IsMember, RolesHold, RolesAreChosen
      <4>3. QED
        BY <3>1, <4>1, <4>2 DEF Grows
    <3>4. QED
      BY <3>2, <3>3
  <2>2. QED
    BY <2>1 DEF RolesAreChosen
<1>5. OwnerKept'
  <2>1. ASSUME NEW x \in made', founder'[x] \notin named'[x]
        PROVE  member'[x][founder'[x]].role = "OWNER"
    <3>1. /\ x \in made /\ x \in Workspaces /\ founder'[x] = founder[x]
          /\ founder[x] \in Users /\ named[x] \subseteq named'[x]
      BY MembersParts DEF MembersFit, Grows
    <3>2. x # w \/ founder[x] # u
      BY <2>1, <3>1
    <3>3. member'[x][founder[x]] = member[x][founder[x]]
      BY <1>2, <3>1, <3>2
    <3>4. QED
      BY <2>1, <3>1, <3>3, MembersParts DEF RolesHold, OwnerKept
  <2>2. QED
    BY <2>1 DEF OwnerKept
<1>6. QED
  BY <1>2, <1>3, <1>4, <1>5 DEF RolesHold

LEMMA UpsertStep ==
  ASSUME MembersInv, NEW w \in made, NEW u \in known, NEW role \in Grantable,
         member' = Upserted(w, u, role),
         UNCHANGED <<known, made, founder>>, Grows,
         role \in chosen'[w][u], u \in named'[w]
  PROVE  /\ member' \in [Workspaces -> [Users -> Rows]]
         /\ MembersFit' /\ RolesHold'
         /\ \A x \in Workspaces, v \in Users :
              x # w \/ v # u => member'[x][v] = member[x][v]
<1> DEFINE row == [role |-> role,
                   rank |-> IF IsMember(w, u) THEN member[w][u].rank ELSE clock + 1]
<1>1. /\ w \in Workspaces /\ u \in Users /\ clock \in Nat
      /\ member \in [Workspaces -> [Users -> Rows]]
  BY MembersParts
<1>2. member' = [member EXCEPT ![w][u] = row]
  BY <1>1 DEF Upserted
<1>3. row \in Rows /\ row.role = role /\ role # "NONE" /\ row.rank # 0
  <2>1. IsMember(w, u) => member[w][u].rank # 0 /\ member[w][u].rank \in Nat
    BY <1>1, MembersParts DEF MembersFit, IsMember, Rows
  <2>2. clock + 1 \in Nat /\ clock + 1 # 0
    BY <1>1
  <2>3. QED
    BY <2>1, <2>2 DEF Rows, Roles, Grantable
<1> HIDE DEF row
<1>4. QED
  BY <1>2, <1>3, MemberStep

\* A write on the invitation of u to w.
Puts(w, u, i) == invitation' = [invitation EXCEPT ![w][u] = i]

LEMMA InvitationStep ==
  ASSUME MembersInv, Grows, NEW w \in made, NEW u \in Users, NEW i \in Invitations,
         Puts(w, u, i),
         i.status # "NONE" => u \in named'[w] /\ i.role \in chosen'[w][u]
  PROVE  /\ invitation' \in [Workspaces -> [Users -> Invitations]]
         /\ InvitationsFit'
         /\ invitation'[w][u] = i
         /\ \A x \in Workspaces, v \in Users :
              x # w \/ v # u => invitation'[x][v] = invitation[x][v]
<1>1. /\ w \in Workspaces /\ made \subseteq made'
      /\ invitation \in [Workspaces -> [Users -> Invitations]]
      /\ invitation' = [invitation EXCEPT ![w][u] = i]
  BY MembersParts DEF Grows, Puts
<1>2. /\ invitation' \in [Workspaces -> [Users -> Invitations]]
      /\ invitation'[w][u] = i
      /\ \A x \in Workspaces, v \in Users :
           x # w \/ v # u => invitation'[x][v] = invitation[x][v]
  BY <1>1
<1>3. ASSUME NEW x \in Workspaces, NEW v \in Users, invitation'[x][v].status # "NONE"
      PROVE  /\ x \in made' /\ v \in named'[x]
             /\ invitation'[x][v].role \in chosen'[x][v]
  <2>1. CASE x = w /\ v = u
    BY <1>1, <1>2, <1>3, <2>1
  <2>2. CASE x # w \/ v # u
    <3>1. /\ invitation'[x][v] = invitation[x][v]
          /\ x \in made /\ v \in named[x] /\ invitation[x][v].role \in chosen[x][v]
      BY <1>2, <1>3, <2>2, MembersParts DEF InvitationsFit
    <3>2. QED
      BY <1>1, <3>1 DEF Grows
  <2>3. QED
    BY <2>1, <2>2
<1>4. QED
  BY <1>2, <1>3 DEF InvitationsFit

\* The status of an invitation is written: whoever read it while it was open
\* is late from now on.
LEMMA CloseStep ==
  ASSUME MembersInv, NEW w \in made, NEW u \in Users,
         NEW status \in Statuses \ {"NONE"}, invitation[w][u].status # "NONE",
         invitation' = [invitation EXCEPT ![w][u].status = status],
         UNCHANGED <<known, made, founder>>, Close(w, u)
  PROVE  /\ Grows /\ SeenFits' /\ InvitationsFit'
         /\ invitation' \in [Workspaces -> [Users -> Invitations]]
         /\ \A r \in Requests : pc[r] \notin {"new", "done"} => StillInvited(r)
<1> DEFINE i == [invitation[w][u] EXCEPT !.status = status]
           under == {q \in Requests : pc[q] \notin {"new", "done"}}
<1>1. /\ w \in Workspaces /\ invitation \in [Workspaces -> [Users -> Invitations]]
      /\ late \in [Workspaces -> [Users -> SUBSET Requests]]
      /\ invitation[w][u] \in Invitations
  BY MembersParts
<1>2. /\ i \in Invitations /\ i.role = invitation[w][u].role
      /\ Puts(w, u, i)
  BY <1>1 DEF Invitations, Puts
<1>3. i.status # "NONE"
  BY <1>1 DEF Invitations
<1>4. UNCHANGED <<named, chosen>>
  BY DEF Close
<1>5. Grows
  <2>1. \A x \in Workspaces, v \in Users :
          invitation[x][v].status # "NONE" => invitation'[x][v].status # "NONE"
    BY <1>1, <1>2, <1>3 DEF Puts
  <2>2. QED
    BY <1>4, <2>1 DEF Grows
<1>6. u \in named'[w] /\ i.role \in chosen'[w][u]
  BY <1>1, <1>2, <1>4, MembersParts DEF InvitationsFit
<1> HIDE DEF i, under
<1>7. /\ invitation' \in [Workspaces -> [Users -> Invitations]]
      /\ InvitationsFit'
      /\ \A x \in Workspaces, v \in Users :
           x # w \/ v # u => invitation'[x][v] = invitation[x][v]
  BY <1>2, <1>5, <1>6, InvitationStep
<1>8. /\ late' \in [Workspaces -> [Users -> SUBSET Requests]]
      /\ late'[w][u] = IF IsOpen(w, u) THEN under ELSE late[w][u]
      /\ \A x \in Workspaces, v \in Users :
           x # w \/ v # u => late'[x][v] = late[x][v]
  <2>1. under \subseteq Requests
    BY DEF under
  <2>2. CASE IsOpen(w, u)
    <3>1. late' = [late EXCEPT ![w][u] = under]
      BY <2>2 DEF Close, under
    <3>2. QED
      BY <1>1, <2>1, <2>2, <3>1
  <2>3. CASE ~ IsOpen(w, u)
    BY <1>1, <2>3 DEF Close
  <2>4. QED
    BY <2>2, <2>3
<1>9. SeenFits'
  BY <1>4, <1>8, MembersParts DEF SeenFits
<1>10. ASSUME NEW r \in Requests, pc[r] \notin {"new", "done"},
             NEW x \in Workspaces, NEW v \in Users, IsOpen(x, v) \/ r \in late[x][v]
      PROVE  IsOpen(x, v)' \/ r \in late'[x][v]
  <2>1. CASE x = w /\ v = u
    BY <1>8, <1>10, <2>1 DEF under
  <2>2. CASE x # w \/ v # u
    BY <1>7, <1>8, <1>10, <2>2 DEF IsOpen
  <2>3. QED
    BY <2>1, <2>2
<1>11. QED
  BY <1>5, <1>7, <1>9, <1>10 DEF StillInvited

-----------------------------------------------------------------------------
(* Steps that read *)

LEMMA AskKeeps ==
  ASSUME MembersInv, NEW q \in Requests, NEW u \in Users, NEW op \in OnMembers \cup {"load"},
         NEW t \in Users \cup {NoUser}, op \in OnMembers => t \in Users,
         NEW role \in Grantable, Ask(q, u, op, t, role)
  PROVE  MembersInv' /\ LetsIn
<1> DEFINE rec == [req[q] EXCEPT !.user = u, !.op = op, !.target = t, !.role = role]
<1>1. req \in [Requests -> Records] /\ pc \in [Requests -> Places] /\ u \in known
  BY MembersParts DEF Ask
<1>2. rec \in Records /\ rec.user = u /\ rec.op = op /\ rec.target = t
  BY <1>1 DEF Records, Ops
<1>3. /\ pc' = [pc EXCEPT ![q] = "context"] /\ req' = [req EXCEPT ![q] = rec]
      /\ UNCHANGED <<rows, seen>> /\ "context" \in Places
  BY <1>1 DEF Ask, Goto, Places
<1> HIDE DEF rec
<1>4. UseFits(q, "context", rec)
  BY <1>1, <1>2 DEF UseFits, InWorkspace, OnRow
<1>5. QED
  BY <1>2, <1>3, <1>4, ReadStep

LEMMA FollowKeeps ==
  ASSUME MembersInv, NEW q \in Requests, NEW u \in Users, NEW token \in Nat,
         Follow(q, u, token)
  PROVE  MembersInv' /\ LetsIn
<1> DEFINE rec == [req[q] EXCEPT !.user = u, !.op = "accept", !.token = token]
<1>1. req \in [Requests -> Records] /\ pc \in [Requests -> Places] /\ u \in known
  BY MembersParts DEF Follow
<1>2. rec \in Records /\ rec.user = u /\ rec.op = "accept"
  BY <1>1 DEF Records, Ops
<1>3. /\ pc' = [pc EXCEPT ![q] = "invited"] /\ req' = [req EXCEPT ![q] = rec]
      /\ UNCHANGED <<rows, seen>> /\ "invited" \in Places
  BY <1>1 DEF Follow, Goto, Places
<1> HIDE DEF rec
<1>4. UseFits(q, "invited", rec)
  BY <1>1, <1>2 DEF UseFits, InWorkspace, OnRow, OnMembers
<1>5. QED
  BY <1>2, <1>3, <1>4, ReadStep

LEMMA FinishKeeps ==
  ASSUME MembersInv, NEW q \in Requests, Finish(q), UNCHANGED <<rows, seen>>
  PROVE  MembersInv' /\ LetsIn
<1>1. /\ pc' = [pc EXCEPT ![q] = "done"] /\ req' = [req EXCEPT ![q] = NoRequest]
      /\ "done" \in Places
  BY DEF Finish, Goto, Places
<1>2. QED
  BY <1>1, FinishedFits, ReadStep

\* A request goes on with what it has.
LEMMA GotoKeeps ==
  ASSUME MembersInv, NEW q \in Requests, NEW place \in Places, Goto(q, place),
         UNCHANGED <<rows, seen, req>>, UseFits(q, place, req[q])
  PROVE  MembersInv' /\ LetsIn
<1>1. req[q] \in Records /\ pc' = [pc EXCEPT ![q] = place]
  BY MembersParts DEF Goto
<1>2. req' = [req EXCEPT ![q] = req[q]]
  BY MembersParts
<1>3. QED
  BY <1>1, <1>2, ReadStep

LEMMA ContextKeeps ==
  ASSUME MembersInv, NEW q \in Requests, Context(q)
  PROVE  MembersInv' /\ LetsIn
<1> DEFINE u == req[q].user
           w == PrimaryOf(u)
           rec == [req[q] EXCEPT !.ws = w, !.as = member[w][u].role]
<1>1. /\ req \in [Requests -> Records] /\ pc \in [Requests -> Places]
      /\ pc[q] = "context" /\ UseFits(q, "context", req[q])
      /\ known \subseteq Users /\ made \subseteq Workspaces /\ made \subseteq Nat
      /\ member \in [Workspaces -> [Users -> Rows]]
  BY MembersParts, FirstWorkspace DEF Context
<1>2. u \in known /\ u \in Users
  BY <1>1 DEF UseFits
<1>3. CASE Memberships(u) # {}
  <2>1. w \in Memberships(u)
    BY <1>2, <1>3, PrimaryIsOne
  <2>2. w \in made /\ w \in Workspaces /\ w \in Nat
    BY <1>1, <2>1 DEF Memberships
  <2>3. member[w][u].role \in Roles \cup {"NONE"}
    BY <1>1, <1>2, <2>2 DEF Rows
  <2>4. /\ rec \in Records /\ rec.ws = w /\ rec.user = u
        /\ rec.op = req[q].op /\ rec.target = req[q].target
    BY <1>1, <2>2, <2>3 DEF Records
  <2>5. /\ pc' = [pc EXCEPT ![q] = "handler"] /\ req' = [req EXCEPT ![q] = rec]
        /\ UNCHANGED <<rows, seen>> /\ "handler" \in Places
    BY <1>1, <1>3 DEF Context, Goto, Places, InWorkspace
  <2> HIDE DEF rec
  <2>6. UseFits(q, "handler", rec)
    BY <1>1, <1>2, <2>2, <2>4 DEF UseFits, InWorkspace, OnRow
  <2>7. QED
    BY <2>4, <2>5, <2>6, ReadStep
<1>4. CASE Memberships(u) = {}
  <2>1. /\ Goto(q, "pending") /\ UNCHANGED <<rows, seen, req>> /\ "pending" \in Places
    BY <1>4 DEF Context, Places
  <2>2. UseFits(q, "pending", req[q])
    BY <1>1 DEF UseFits, InWorkspace, OnRow
  <2>3. QED
    BY <2>1, <2>2, GotoKeeps
<1>5. QED
  BY <1>3, <1>4

LEMMA ReadPendingKeeps ==
  ASSUME MembersInv, NEW q \in Requests, ReadPending(q)
  PROVE  MembersInv' /\ LetsIn
<1> DEFINE u == req[q].user
           open == {[ws |-> w, role |-> invitation[w][u].role] :
                      w \in {x \in made : IsOpen(x, u)}}
           rec == [req[q] EXCEPT !.todo = open]
<1>1. /\ req \in [Requests -> Records] /\ pc \in [Requests -> Places]
      /\ pc[q] = "pending" /\ UseFits(q, "pending", req[q])
      /\ known \subseteq Users /\ made \subseteq Workspaces
      /\ invitation \in [Workspaces -> [Users -> Invitations]]
  BY MembersParts DEF ReadPending
<1>2. u \in known /\ u \in Users
  BY <1>1 DEF UseFits
<1>3. \A i \in open : Invited(q, i.ws, u, i.role)
  <2>1. ASSUME NEW w \in made, IsOpen(w, u)
        PROVE  Invited(q, w, u, invitation[w][u].role)
    <3>1. w \in Workspaces /\ invitation[w][u].status # "NONE"
      BY <1>1, <2>1 DEF IsOpen
    <3>2. QED
      BY <1>2, <2>1, <3>1, MembersParts DEF Invited, InvitationsFit
  <2>2. QED
    BY <2>1
<1>4. open \in SUBSET [ws: Workspaces, role: Grantable]
  BY <1>1, <1>2 DEF Invitations
<1>5. /\ pc' = [pc EXCEPT ![q] = "joining"] /\ req' = [req EXCEPT ![q] = rec]
      /\ UNCHANGED <<rows, seen>> /\ "joining" \in Places
  BY <1>1 DEF ReadPending, Goto, Places
<1> HIDE DEF open
<1>6. /\ rec \in Records /\ rec.user = u /\ rec.todo = open
      /\ rec.op = req[q].op /\ rec.target = req[q].target
  BY <1>1, <1>4 DEF Records
<1> HIDE DEF rec
<1>7. UseFits(q, "joining", rec)
  BY <1>1, <1>2, <1>3, <1>6 DEF UseFits, InWorkspace, OnRow
<1>8. QED
  BY <1>5, <1>6, <1>7, ReadStep

LEMMA EnsureKeeps ==
  ASSUME MembersInv, NEW q \in Requests, Ensure(q)
  PROVE  MembersInv' /\ LetsIn
<1> DEFINE u == req[q].user
           w == PrimaryOf(u)
           rec == [req[q] EXCEPT !.ws = w]
<1>1. /\ req \in [Requests -> Records] /\ pc \in [Requests -> Places]
      /\ pc[q] = "joining" /\ UseFits(q, "joining", req[q])
      /\ known \subseteq Users /\ made \subseteq Nat
  BY MembersParts, FirstWorkspace DEF Ensure
<1>2. u \in known /\ u \in Users
  BY <1>1 DEF UseFits
<1>3. CASE Memberships(u) # {}
  <2>1. w \in made /\ w \in Nat
    BY <1>1, <1>2, <1>3, PrimaryIsOne DEF Memberships
  <2>2. /\ rec \in Records /\ rec.ws = w /\ rec.user = u
        /\ rec.op = req[q].op /\ rec.target = req[q].target
    BY <1>1, <2>1 DEF Records
  <2>3. /\ pc' = [pc EXCEPT ![q] = "role"] /\ req' = [req EXCEPT ![q] = rec]
        /\ UNCHANGED <<rows, seen>> /\ "role" \in Places
    BY <1>1, <1>3 DEF Ensure, Goto, Places, InWorkspace
  <2> HIDE DEF rec
  <2>4. UseFits(q, "role", rec)
    BY <1>1, <1>2, <2>1, <2>2 DEF UseFits, InWorkspace, OnRow
  <2>5. QED
    BY <2>2, <2>3, <2>4, ReadStep
<1>4. CASE Memberships(u) = {}
  <2>1. /\ Goto(q, "create") /\ UNCHANGED <<rows, seen, req>> /\ "create" \in Places
    BY <1>4 DEF Ensure, Places
  <2>2. UseFits(q, "create", req[q])
    BY <1>1 DEF UseFits, InWorkspace, OnRow
  <2>3. QED
    BY <2>1, <2>2, GotoKeeps
<1>5. QED
  BY <1>3, <1>4

LEMMA ReadRoleKeeps ==
  ASSUME MembersInv, NEW q \in Requests, ReadRole(q)
  PROVE  MembersInv' /\ LetsIn
<1> DEFINE r == member[req[q].ws][req[q].user].role
           rec == [req[q] EXCEPT !.as = IF r = "NONE" THEN "OWNER" ELSE r]
<1>1. /\ req \in [Requests -> Records] /\ pc \in [Requests -> Places]
      /\ pc[q] = "role" /\ UseFits(q, "role", req[q])
      /\ known \subseteq Users /\ made \subseteq Workspaces
      /\ member \in [Workspaces -> [Users -> Rows]]
      /\ UNCHANGED <<rows, seen>>
  BY MembersParts DEF ReadRole
<1>2. CASE req[q].op = "signup"
  BY <1>1, <1>2, FinishKeeps DEF ReadRole
<1>3. CASE req[q].op # "signup"
  <2>1. req[q].user \in known /\ req[q].ws \in made
    BY <1>1 DEF UseFits, InWorkspace
  <2>2. r \in Roles \cup {"NONE"}
    BY <1>1, <2>1 DEF Rows
  <2>3. /\ pc' = [pc EXCEPT ![q] = "handler"] /\ req' = [req EXCEPT ![q] = rec]
        /\ "handler" \in Places
    BY <1>1, <1>3 DEF ReadRole, Goto, Places, InWorkspace
  <2> HIDE DEF r
  <2>4. /\ rec \in Records /\ rec.ws = req[q].ws /\ rec.user = req[q].user
        /\ rec.op = req[q].op /\ rec.target = req[q].target
    BY <1>1, <2>2 DEF Records, Roles
  <2> HIDE DEF rec
  <2>5. UseFits(q, "handler", rec)
    BY <1>1, <2>1, <2>4 DEF UseFits, InWorkspace, OnRow
  <2>6. QED
    BY <1>1, <2>3, <2>4, <2>5, ReadStep
<1>4. QED
  BY <1>2, <1>3

LEMMA LookUpKeeps ==
  ASSUME MembersInv, NEW q \in Requests, LookUp(q)
  PROVE  MembersInv' /\ LetsIn
<1> DEFINE place == IF req[q].target \in known THEN "add" ELSE "write"
<1>1. /\ pc[q] = "handler" /\ UseFits(q, "handler", req[q]) /\ req[q].op = "invite"
      /\ Goto(q, place) /\ UNCHANGED <<rows, seen, req>>
  BY MembersParts DEF LookUp, Manages
<1>2. /\ place \in {"add", "write"} /\ place \in Places
      /\ place = "add" => req[q].target \in known
  BY DEF Places, InWorkspace, OnRow
<1> HIDE DEF place
<1>3. UseFits(q, place, req[q])
  BY <1>1, <1>2 DEF UseFits, InWorkspace, OnRow, OnMembers
<1>4. QED
  BY <1>1, <1>2, <1>3, GotoKeeps

LEMMA FindMemberKeeps ==
  ASSUME MembersInv, NEW q \in Requests, FindMember(q)
  PROVE  MembersInv' /\ LetsIn
<1> DEFINE w == req[q].ws
           t == req[q].target
           m == member[w][t]
           self == req[q].op = "remove" /\ t = req[q].user
           rec == [req[q] EXCEPT !.rank = m.rank]
<1>1. /\ req \in [Requests -> Records] /\ pc \in [Requests -> Places]
      /\ pc[q] = "handler" /\ UseFits(q, "handler", req[q])
      /\ req[q].op \in {"update", "remove"}
      /\ known \subseteq Users /\ made \subseteq Workspaces
      /\ member \in [Workspaces -> [Users -> Rows]]
      /\ UNCHANGED <<rows, seen>>
  BY MembersParts DEF FindMember, Manages
<1>2. CASE m.role \in {"NONE", "OWNER"} \/ self
  BY <1>1, <1>2, FinishKeeps DEF FindMember
<1>3. CASE ~ (m.role \in {"NONE", "OWNER"} \/ self)
  <2>1. req[q].user \in known /\ w \in made /\ w \in Workspaces /\ t \in Users
    BY <1>1 DEF UseFits, InWorkspace, OnMembers
  <2>2. m.rank \in Nat
    BY <1>1, <2>1 DEF Rows
  <2>3. t = founder[w] => t \in named[w]
    BY <1>3, <2>1, MembersParts DEF RolesHold, OwnerKept
  <2>4. /\ pc' = [pc EXCEPT ![q] = req[q].op] /\ req' = [req EXCEPT ![q] = rec]
        /\ req[q].op \in Places
    BY <1>1, <1>3 DEF FindMember, Goto, Places, InWorkspace, OnRow
  <2>5. /\ rec \in Records /\ rec.ws = w /\ rec.user = req[q].user
        /\ rec.op = req[q].op /\ rec.target = t
    BY <1>1, <2>2 DEF Records
  <2> HIDE DEF rec
  <2>6. UseFits(q, req[q].op, rec)
    BY <1>1, <2>1, <2>3, <2>5 DEF UseFits, InWorkspace, OnRow
  <2>7. QED
    BY <1>1, <2>4, <2>5, <2>6, ReadStep
<1>4. QED
  BY <1>2, <1>3

LEMMA ReadInvitationKeeps ==
  ASSUME MembersInv, NEW q \in Requests, ReadInvitation(q)
  PROVE  MembersInv' /\ LetsIn
<1> DEFINE Open(w, x) == /\ invitation[w][x].token = req[q].token
                         /\ invitation[w][x].status = "PENDING"
<1>1. /\ req \in [Requests -> Records] /\ pc \in [Requests -> Places]
      /\ pc[q] = "invited" /\ UseFits(q, "invited", req[q])
      /\ known \subseteq Users /\ made \subseteq Workspaces /\ made \subseteq Nat
      /\ invitation \in [Workspaces -> [Users -> Invitations]]
      /\ UNCHANGED <<rows, seen>>
  BY MembersParts, FirstWorkspace DEF ReadInvitation
<1>2. CASE Finish(q)
  BY <1>1, <1>2, FinishKeeps
<1>3. ASSUME NEW w \in made, NEW x \in Users, Open(w, x),
             invitation[w][x].over \/ x = req[q].user,
             Goto(q, IF invitation[w][x].over THEN "expire" ELSE "accept"),
             req' = [req EXCEPT ![q].ws = w, ![q].target = x,
                                ![q].role = invitation[w][x].role]
      PROVE  MembersInv' /\ LetsIn
  <2> DEFINE place == IF invitation[w][x].over THEN "expire" ELSE "accept"
             rec == [req[q] EXCEPT !.ws = w, !.target = x, !.role = invitation[w][x].role]
  <2>1. /\ w \in Workspaces /\ w \in Nat /\ invitation[w][x] \in Invitations
        /\ invitation[w][x].status = "PENDING"
    BY <1>1, <1>3
  <2>2. req' = [req EXCEPT ![q] = rec]
    BY <1>1, <1>3
  <2>3. /\ invitation[w][x].role \in Grantable /\ req[q] \in Records
    BY <1>1, <2>1 DEF Invitations
  <2>4. /\ rec \in Records
        /\ rec.ws = w /\ rec.user = req[q].user /\ rec.target = x
        /\ rec.role = invitation[w][x].role /\ rec.op = req[q].op
    BY <2>1, <2>3 DEF Records
  <2>5. pc' = [pc EXCEPT ![q] = place] /\ place \in {"expire", "accept"} /\ place \in Places
    BY <1>3 DEF Goto, Places, InWorkspace, OnRow
  <2>6. /\ invitation[w][x].status # "NONE" /\ x \in named[w]
        /\ invitation[w][x].role \in chosen[w][x]
    BY <2>1, MembersParts DEF InvitationsFit
  <2>7. place = "accept" => x = req[q].user /\ IsOpen(w, x)
    BY <1>3, <2>1 DEF IsOpen
  <2> HIDE DEF rec, place
  <2>8. UseFits(q, place, rec)
    BY <1>1, <2>4, <2>5, <2>6, <2>7 DEF UseFits, Invited, InWorkspace, OnRow
  <2>9. QED
    BY <1>1, <2>2, <2>4, <2>5, <2>8, ReadStep
<1>4. QED
  BY <1>2, <1>3 DEF ReadInvitation

-----------------------------------------------------------------------------
(* Steps that write *)

LEMMA NobodyNew ==
  ASSUME member' = member
  PROVE  LetsIn
BY DEF LetsIn, IsMember

LEMMA SignUpKeeps ==
  ASSUME MembersInv, NEW q \in Requests, NEW u \in Users, SignUp(q, u)
  PROVE  MembersInv' /\ LetsIn
<1> DEFINE rec == [req[q] EXCEPT !.user = u, !.op = "signup"]
<1>1. /\ req \in [Requests -> Records] /\ pc \in [Requests -> Places]
      /\ known' = known \cup {u}
      /\ UNCHANGED <<made, founder, member, invitation, clock, named, chosen, late>>
  BY MembersParts DEF SignUp, seen
<1>2. rec \in Records /\ rec.user = u /\ rec.op = "signup"
  BY <1>1 DEF Records, Ops
<1>3. /\ pc' = [pc EXCEPT ![q] = "pending"] /\ req' = [req EXCEPT ![q] = rec]
      /\ "pending" \in Places
  BY <1>1 DEF SignUp, Goto, Places
<1>4. pc'[q] = "pending" /\ req'[q] = rec
  BY <1>1, <1>3
<1> HIDE DEF rec
<1>5. Grows /\ \A r \in Requests : StillInvited(r)
  BY <1>1 DEF Grows, StillInvited, IsOpen
<1>6. UseFits(q, pc[q], req[q])'
  BY <1>1, <1>2, <1>4 DEF UseFits, InWorkspace, OnRow, OnMembers
<1>7. RequestsFit'
  BY <1>2, <1>3, <1>5, <1>6, RequestsStep
<1>8. RowsFit' /\ SeenFits' /\ MembersFit' /\ InvitationsFit' /\ RolesHold'
  BY <1>1, MembersParts DEF RowsFit, SeenFits, MembersFit, InvitationsFit, RolesHold,
     RolesAreChosen, OwnerKept, IsMember
<1>9. QED
  BY <1>1, <1>7, <1>8, NobodyNew DEF MembersInv

\* Where a request writes.
LEMMA PlaceOf ==
  ASSUME MembersInv, NEW q \in Requests, pc[q] \in OnRow
  PROVE  /\ UseFits(q, pc[q], req[q]) /\ req[q] \in Records
         /\ req[q].ws \in made /\ req[q].ws \in Workspaces
         /\ req[q].target \in Users /\ req[q].role \in Grantable
         /\ req[q].user \in known /\ req[q].user \in Users
BY MembersParts DEF UseFits, OnRow, InWorkspace, Records

\* A manager's choice is recorded, and his request is answered.
LEMMA ChoiceStep ==
  ASSUME MembersInv, NEW w \in made, NEW t \in Users, NEW role \in Grantable,
         chosen' = [chosen EXCEPT ![w][t] = @ \cup {role}],
         named' = [named EXCEPT ![w] = @ \cup {t}] \/ named' = named, late' = late
  PROVE  /\ SeenFits' /\ role \in chosen'[w][t]
         /\ named' = named \/ t \in named'[w]
         /\ \A x \in Workspaces : named[x] \subseteq named'[x]
         /\ \A x \in Workspaces, u \in Users : chosen[x][u] \subseteq chosen'[x][u]
<1>1. /\ w \in Workspaces /\ named \in [Workspaces -> SUBSET Users]
      /\ chosen \in [Workspaces -> [Users -> SUBSET Grantable]]
      /\ late \in [Workspaces -> [Users -> SUBSET Requests]]
  BY MembersParts
<1>2. /\ named' \in [Workspaces -> SUBSET Users]
      /\ named' = named \/ t \in named'[w]
      /\ \A x \in Workspaces : named[x] \subseteq named'[x]
  BY <1>1
<1>3. /\ chosen[w][t] \cup {role} \in SUBSET Grantable
      /\ chosen' = [chosen EXCEPT ![w][t] = chosen[w][t] \cup {role}]
  BY <1>1
<1>4. /\ chosen' \in [Workspaces -> [Users -> SUBSET Grantable]]
      /\ chosen'[w][t] = chosen[w][t] \cup {role}
      /\ \A x \in Workspaces, u \in Users :
           x # w \/ u # t => chosen'[x][u] = chosen[x][u]
  BY <1>1, <1>3
<1>5. \A x \in Workspaces, u \in Users : chosen[x][u] \subseteq chosen'[x][u]
  BY <1>4
<1>6. QED
  BY <1>1, <1>2, <1>4, <1>5 DEF SeenFits

LEMMA AddMemberKeeps ==
  ASSUME MembersInv, NEW q \in Requests, AddMember(q)
  PROVE  MembersInv' /\ LetsIn
<1> DEFINE w == req[q].ws
           t == req[q].target
           role == req[q].role
<1>1. pc[q] = "add" /\ pc[q] \in OnRow
  BY DEF AddMember, OnRow
<1>2. /\ w \in made /\ w \in Workspaces /\ t \in Users /\ t \in known
      /\ role \in Grantable
  BY <1>1, PlaceOf DEF UseFits
<1>3. /\ chosen' = [chosen EXCEPT ![w][t] = @ \cup {role}]
      /\ named' = [named EXCEPT ![w] = @ \cup {t}]
      /\ UNCHANGED <<known, made, founder, invitation, late>>
      /\ member' = Upserted(w, t, role) /\ clock' = clock + 1 /\ Finish(q)
  BY DEF AddMember, Chooses
<1>4. /\ SeenFits' /\ role \in chosen'[w][t]
      /\ \A x \in Workspaces : named[x] \subseteq named'[x]
      /\ \A x \in Workspaces, u \in Users : chosen[x][u] \subseteq chosen'[x][u]
  BY <1>2, <1>3, ChoiceStep
<1>5. t \in named'[w]
  BY <1>2, <1>3, MembersParts
<1>6. Grows /\ \A r \in Requests : StillInvited(r)
  BY <1>3, <1>4, MembersParts DEF Grows, StillInvited, IsOpen
<1>7. /\ member' \in [Workspaces -> [Users -> Rows]] /\ MembersFit' /\ RolesHold'
      /\ \A x \in Workspaces, v \in Users :
           x # w \/ v # t => member'[x][v] = member[x][v]
  BY <1>2, <1>3, <1>4, <1>5, <1>6, UpsertStep
<1>8. RowsFit' /\ InvitationsFit'
  BY <1>3, <1>4, <1>7, MembersParts DEF RowsFit, InvitationsFit
<1>9. RequestsFit'
  BY <1>3, <1>6, FinishStep
<1>10. LetsIn
  BY <1>1, <1>2, <1>7, MembersParts DEF LetsIn, IsMember
<1>11. QED
  BY <1>4, <1>7, <1>8, <1>9, <1>10 DEF MembersInv

LEMMA WriteInvitationKeeps ==
  ASSUME MembersInv, NEW q \in Requests, WriteInvitation(q)
  PROVE  MembersInv' /\ LetsIn
<1> DEFINE w == req[q].ws
           t == req[q].target
           role == req[q].role
           i == [status |-> "PENDING", role |-> role, token |-> clock + 1, over |-> FALSE]
<1>1. pc[q] \in OnRow
  BY DEF WriteInvitation, OnRow
<1>2. /\ w \in made /\ w \in Workspaces /\ t \in Users /\ role \in Grantable
  BY <1>1, PlaceOf
<1>3. /\ chosen' = [chosen EXCEPT ![w][t] = @ \cup {role}]
      /\ named' = [named EXCEPT ![w] = @ \cup {t}]
      /\ UNCHANGED <<known, made, founder, member, late>>
      /\ Puts(w, t, i) /\ clock' = clock + 1 /\ Finish(q)
  BY DEF WriteInvitation, Chooses, Puts
<1>4. /\ SeenFits' /\ role \in chosen'[w][t]
      /\ \A x \in Workspaces : named[x] \subseteq named'[x]
      /\ \A x \in Workspaces, u \in Users : chosen[x][u] \subseteq chosen'[x][u]
  BY <1>2, <1>3, ChoiceStep
<1>5. t \in named'[w]
  BY <1>2, <1>3, MembersParts
<1>6. /\ i \in Invitations /\ i.status = "PENDING" /\ ~ i.over /\ i.role = role
  BY <1>2, MembersParts DEF Invitations, Statuses
<1> HIDE DEF i
<1>7. invitation'[w][t] = i
  BY <1>2, <1>3, MembersParts DEF Puts
<1>8. \A x \in Workspaces, v \in Users :
        x # w \/ v # t => invitation'[x][v] = invitation[x][v]
  BY <1>2, <1>3, MembersParts DEF Puts
<1>9. Grows
  <2>1. \A x \in Workspaces, v \in Users :
          invitation[x][v].status # "NONE" => invitation'[x][v].status # "NONE"
    BY <1>6, <1>7, <1>8
  <2>2. QED
    BY <1>3, <1>4, <2>1, MembersParts DEF Grows
<1>10. \A r \in Requests : StillInvited(r)
  BY <1>3, <1>6, <1>7, <1>8 DEF StillInvited, IsOpen
<1>11. invitation' \in [Workspaces -> [Users -> Invitations]] /\ InvitationsFit'
  BY <1>2, <1>3, <1>4, <1>5, <1>6, <1>9, InvitationStep
<1>12. RowsFit' /\ MembersFit' /\ RolesHold'
  <2>1. RowsFit' /\ MembersFit'
    BY <1>3, <1>11, MembersParts DEF RowsFit, MembersFit, IsMember
  <2>2. RolesHold'
    BY <1>3, <1>4, MembersParts DEF RolesHold, RolesAreChosen, OwnerKept, IsMember
  <2>3. QED
    BY <2>1, <2>2
<1>13. RequestsFit'
  BY <1>3, <1>9, <1>10, FinishStep
<1>14. QED
  BY <1>3, <1>4, <1>11, <1>12, <1>13, NobodyNew DEF MembersInv

\* The row found is written.
LEMMA RowOf ==
  ASSUME MembersInv, NEW q \in Requests, pc[q] \in {"update", "remove"}, SameRow(q)
  PROVE  /\ req[q].ws \in made /\ req[q].target \in known
         /\ req[q].ws \in Workspaces /\ req[q].target \in Users
         /\ req[q].role \in Grantable
         /\ member[req[q].ws][req[q].target] \in Rows
         /\ member[req[q].ws][req[q].target].role # "NONE"
         /\ member[req[q].ws][req[q].target].rank # 0
         /\ req[q].target = founder[req[q].ws] => req[q].target \in named[req[q].ws]
<1>1. pc[q] \in OnRow
  BY DEF OnRow
<1>2. /\ req[q].ws \in made /\ req[q].ws \in Workspaces /\ req[q].target \in Users
      /\ req[q].role \in Grantable
      /\ req[q].target = founder[req[q].ws] => req[q].target \in named[req[q].ws]
  BY <1>1, PlaceOf DEF UseFits
<1>3. QED
  BY <1>2, MembersParts DEF SameRow, MembersFit, IsMember

LEMMA UpdateRoleKeeps ==
  ASSUME MembersInv, NEW q \in Requests, UpdateRole(q)
  PROVE  MembersInv' /\ LetsIn
<1> DEFINE w == req[q].ws
           t == req[q].target
           role == req[q].role
           row == [member[w][t] EXCEPT !.role = role]
<1>1. pc[q] \in {"update", "remove"} /\ SameRow(q)
  BY DEF UpdateRole
<1>2. /\ w \in made /\ w \in Workspaces /\ t \in known /\ t \in Users
      /\ role \in Grantable /\ member[w][t] \in Rows /\ member[w][t].role # "NONE"
      /\ member[w][t].rank # 0
      /\ t = founder[w] => t \in named[w]
  BY <1>1, RowOf
<1>3. /\ chosen' = [chosen EXCEPT ![w][t] = @ \cup {role}]
      /\ UNCHANGED <<known, made, founder, invitation, clock, late, named>>
      /\ member' = [member EXCEPT ![w][t].role = role] /\ Finish(q)
  BY DEF UpdateRole, Chooses
<1>4. /\ SeenFits' /\ role \in chosen'[w][t]
      /\ \A x \in Workspaces, u \in Users : chosen[x][u] \subseteq chosen'[x][u]
  BY <1>2, <1>3, ChoiceStep
<1>5. member' = [member EXCEPT ![w][t] = row]
  BY <1>2, <1>3, MembersParts
<1>6. row \in Rows /\ row.role = role /\ role # "NONE" /\ row.rank # 0
  BY <1>2 DEF Rows, Roles, Grantable
<1> HIDE DEF row
<1>7. Grows /\ \A r \in Requests : StillInvited(r)
  BY <1>3, <1>4, MembersParts DEF Grows, StillInvited, IsOpen
<1>8. /\ member' \in [Workspaces -> [Users -> Rows]] /\ MembersFit' /\ RolesHold'
      /\ \A x \in Workspaces, v \in Users :
           x # w \/ v # t => member'[x][v] = member[x][v]
  <2>1. row.role \in chosen'[w][t] /\ (row.rank = 0) = (row.role = "NONE")
    BY <1>4, <1>6
  <2>2. UNCHANGED <<known, made, founder>> /\ (t = founder[w] => t \in named'[w])
    BY <1>2, <1>3
  <2>3. w \in made /\ t \in known
    BY <1>2
  <2> HIDE DEF w, t
  <2>4. QED
    BY <1>5, <1>6, <1>7, <2>1, <2>2, <2>3, MemberStep
<1>9. RowsFit' /\ InvitationsFit'
  BY <1>3, <1>4, <1>8, MembersParts DEF RowsFit, InvitationsFit
<1>10. RequestsFit'
  BY <1>3, <1>7, FinishStep
<1>11. LetsIn
  <2>1. \A x \in made, v \in Users : IsMember(x, v)' => IsMember(x, v)
    BY <1>2, <1>8, MembersParts DEF IsMember
  <2>2. QED
    BY <2>1 DEF LetsIn
<1>12. QED
  BY <1>4, <1>8, <1>9, <1>10, <1>11 DEF MembersInv

LEMMA RemoveMemberKeeps ==
  ASSUME MembersInv, NEW q \in Requests, RemoveMember(q)
  PROVE  MembersInv' /\ LetsIn
<1> DEFINE w == req[q].ws
           t == req[q].target
<1>1. pc[q] \in {"update", "remove"} /\ SameRow(q)
  BY DEF RemoveMember
<1>2. /\ w \in made /\ w \in Workspaces /\ t \in known /\ t \in Users
      /\ t = founder[w] => t \in named[w]
  BY <1>1, RowOf
<1>3. /\ UNCHANGED <<known, made, founder, invitation, clock, named, chosen, late>>
      /\ member' = [member EXCEPT ![w][t] = NoRow] /\ Finish(q)
  BY DEF RemoveMember, seen
<1>4. NoRow \in Rows /\ NoRow.role = "NONE" /\ NoRow.rank = 0
  BY DEF NoRow, Rows
<1>5. Grows /\ \A r \in Requests : StillInvited(r)
  BY <1>3 DEF Grows, StillInvited, IsOpen
<1>6. member'[w][t] = NoRow
  BY <1>2, <1>3, MembersParts
<1>7. /\ member' \in [Workspaces -> [Users -> Rows]] /\ MembersFit' /\ RolesHold'
      /\ \A x \in Workspaces, v \in Users :
           x # w \/ v # t => member'[x][v] = member[x][v]
  BY <1>2, <1>3, <1>4, <1>5, MemberStep
<1>8. RowsFit' /\ InvitationsFit' /\ SeenFits'
  BY <1>3, <1>7, MembersParts DEF RowsFit, InvitationsFit, SeenFits
<1>9. RequestsFit'
  BY <1>3, <1>5, FinishStep
<1>10. LetsIn
  <2>1. \A x \in made, v \in Users : IsMember(x, v)' => IsMember(x, v)
    BY <1>4, <1>6, <1>7, MembersParts DEF IsMember
  <2>2. QED
    BY <2>1 DEF LetsIn
<1>11. QED
  BY <1>7, <1>8, <1>9, <1>10 DEF MembersInv

\* An invitation is closed, and the request answered.
LEMMA ClosedKeeps ==
  ASSUME MembersInv, NEW q \in Requests, NEW w \in made, NEW u \in Users,
         NEW status \in Statuses \ {"NONE"}, invitation[w][u].status # "NONE",
         invitation' = [invitation EXCEPT ![w][u].status = status],
         UNCHANGED <<known, made, founder, member, clock>>, Close(w, u), Finish(q)
  PROVE  MembersInv' /\ LetsIn
<1>1. /\ Grows /\ SeenFits' /\ InvitationsFit'
      /\ invitation' \in [Workspaces -> [Users -> Invitations]]
      /\ \A r \in Requests : pc[r] \notin {"new", "done"} => StillInvited(r)
  BY CloseStep
<1>2. UNCHANGED <<named, chosen>>
  BY DEF Close
<1>3. RowsFit' /\ MembersFit' /\ RolesHold'
  BY <1>1, <1>2, MembersParts DEF RowsFit, MembersFit, RolesHold, RolesAreChosen,
     OwnerKept, IsMember
<1>4. RequestsFit'
  BY <1>1, FinishStep
<1>5. QED
  BY <1>1, <1>3, <1>4, NobodyNew DEF MembersInv

LEMMA RevokeKeeps ==
  ASSUME MembersInv, NEW q \in Requests, Revoke(q)
  PROVE  MembersInv' /\ LetsIn
<1> DEFINE w == req[q].ws
           t == req[q].target
<1>1. /\ pc[q] = "handler" /\ req[q].op = "revoke" /\ UseFits(q, "handler", req[q])
      /\ invitation' = [invitation EXCEPT ![w][t].status =
                          IF @ = "PENDING" THEN "REVOKED" ELSE @]
      /\ Close(w, t) /\ Finish(q)
      /\ UNCHANGED <<known, made, founder, member, clock>>
  BY MembersParts DEF Revoke, Manages
<1>2. w \in made /\ w \in Workspaces /\ t \in Users
  BY <1>1, MembersParts DEF UseFits, InWorkspace, OnMembers
<1>3. CASE invitation[w][t].status = "PENDING"
  <2>1. /\ invitation' = [invitation EXCEPT ![w][t].status = "REVOKED"]
        /\ "REVOKED" \in Statuses \ {"NONE"}
    BY <1>1, <1>2, <1>3, MembersParts DEF Statuses
  <2>2. QED
    BY <1>1, <1>2, <1>3, <2>1, ClosedKeeps
<1>4. CASE invitation[w][t].status # "PENDING"
  <2>1. invitation[w][t] \in Invitations
    BY <1>2, MembersParts
  <2>2. [invitation[w][t] EXCEPT !.status = invitation[w][t].status] = invitation[w][t]
    BY <2>1 DEF Invitations
  <2>3. invitation' = [invitation EXCEPT ![w][t] =
                         [invitation[w][t] EXCEPT !.status = invitation[w][t].status]]
    BY <1>1, <1>2, <1>4, MembersParts
  <2>4. invitation' = invitation
    BY <1>2, <2>2, <2>3, MembersParts
  <2>5. UNCHANGED <<named, chosen, late>>
    BY <1>1, <1>4 DEF Close, IsOpen
  <2>6. UNCHANGED <<rows, seen>>
    BY <1>1, <2>4, <2>5 DEF rows, seen
  <2>7. QED
    BY <1>1, <2>6, FinishKeeps
<1>5. QED
  BY <1>3, <1>4

LEMMA MarkExpiredKeeps ==
  ASSUME MembersInv, NEW q \in Requests, MarkExpired(q)
  PROVE  MembersInv' /\ LetsIn
<1> DEFINE w == req[q].ws
           t == req[q].target
<1>1. pc[q] = "expire" /\ pc[q] \in OnRow
  BY DEF MarkExpired, OnRow
<1>2. /\ w \in made /\ t \in Users /\ invitation[w][t].status # "NONE"
  BY <1>1, PlaceOf DEF UseFits
<1>3. /\ invitation' = [invitation EXCEPT ![w][t].status = "EXPIRED"]
      /\ Close(w, t) /\ Finish(q)
      /\ UNCHANGED <<known, made, founder, member, clock>>
      /\ "EXPIRED" \in Statuses \ {"NONE"}
  BY DEF MarkExpired, Statuses
<1>4. QED
  BY <1>2, <1>3, ClosedKeeps

\* An invitation is used: the row is written with the invited role, and the
\* invitation is closed, whatever became of it since it was read.
LEMMA JoinStep ==
  ASSUME MembersInv, NEW q \in Requests, pc[q] \in {"joining", "accept"},
         NEW w \in made, NEW u \in known, NEW role \in Grantable,
         req[q].user = u, Invited(q, w, u, role),
         member' = Upserted(w, u, role),
         invitation' = [invitation EXCEPT ![w][u].status = "ACCEPTED"],
         clock' = clock + 1, Close(w, u), UNCHANGED <<known, made, founder>>
  PROVE  /\ RowsFit' /\ SeenFits' /\ MembersFit' /\ InvitationsFit' /\ RolesHold'
         /\ Grows /\ LetsIn
         /\ \A r \in Requests : pc[r] \notin {"new", "done"} => StillInvited(r)
<1>1. /\ w \in Workspaces /\ u \in Users /\ invitation[w][u].status # "NONE"
      /\ u \in named[w] /\ role \in chosen[w][u]
      /\ IsOpen(w, u) \/ q \in late[w][u]
      /\ "ACCEPTED" \in Statuses \ {"NONE"}
  BY MembersParts DEF Invited, Statuses
<1>2. /\ Grows /\ SeenFits' /\ InvitationsFit'
      /\ invitation' \in [Workspaces -> [Users -> Invitations]]
      /\ \A r \in Requests : pc[r] \notin {"new", "done"} => StillInvited(r)
  BY <1>1, CloseStep
<1>3. UNCHANGED <<named, chosen>>
  BY DEF Close
<1>4. role \in chosen'[w][u] /\ u \in named'[w]
  BY <1>1, <1>3
<1>5. /\ member' \in [Workspaces -> [Users -> Rows]] /\ MembersFit' /\ RolesHold'
      /\ \A x \in Workspaces, v \in Users :
           x # w \/ v # u => member'[x][v] = member[x][v]
  BY <1>2, <1>4, UpsertStep
<1>6. RowsFit'
  BY <1>2, <1>5, MembersParts DEF RowsFit
<1>7. LetsIn
  <2>1. ASSUME NEW x \in made, NEW v \in Users, ~ IsMember(x, v), IsMember(x, v)'
        PROVE  IsOpen(x, v) \/ \E r \in late[x][v] : pc[r] # "done" /\ req[r].user = v
    <3>1. x = w /\ v = u
      BY <1>5, <2>1, MembersParts DEF IsMember
    <3>2. QED
      BY <1>1, <3>1
  <2>2. QED
    BY <2>1 DEF LetsIn
<1>8. QED
  BY <1>2, <1>5, <1>6, <1>7

LEMMA AcceptKeeps ==
  ASSUME MembersInv, NEW q \in Requests, Accept(q)
  PROVE  MembersInv' /\ LetsIn
<1> DEFINE w == req[q].ws
           u == req[q].user
           role == req[q].role
<1>1. pc[q] = "accept" /\ pc[q] \in OnRow
  BY DEF Accept, OnRow
<1>2. /\ w \in made /\ u \in known /\ role \in Grantable /\ req[q].target = u
      /\ Invited(q, w, u, role)
  BY <1>1, PlaceOf DEF UseFits
<1>3. /\ member' = Upserted(w, u, role) /\ clock' = clock + 1 /\ Close(w, u)
      /\ invitation' = [invitation EXCEPT ![w][u].status = "ACCEPTED"]
      /\ Finish(q) /\ UNCHANGED <<known, made, founder>>
  BY <1>2 DEF Accept
<1>4. /\ RowsFit' /\ SeenFits' /\ MembersFit' /\ InvitationsFit' /\ RolesHold'
      /\ Grows /\ LetsIn
      /\ \A r \in Requests : pc[r] \notin {"new", "done"} => StillInvited(r)
  BY <1>1, <1>2, <1>3, JoinStep
<1>5. RequestsFit'
  BY <1>3, <1>4, FinishStep
<1>6. QED
  BY <1>4, <1>5 DEF MembersInv

LEMMA JoinNextKeeps ==
  ASSUME MembersInv, NEW q \in Requests, JoinNext(q)
  PROVE  MembersInv' /\ LetsIn
<1>1. /\ pc[q] = "joining" /\ pc \in [Requests -> Places] /\ req \in [Requests -> Records]
      /\ UseFits(q, "joining", req[q]) /\ known \subseteq Users /\ made \subseteq Workspaces
  BY MembersParts DEF JoinNext
<1>2. PICK u \in known : u = req[q].user
  BY <1>1 DEF UseFits
<1>3. PICK i \in req[q].todo :
        /\ member' = Upserted(i.ws, u, i.role)
        /\ invitation' = [invitation EXCEPT ![i.ws][u].status = "ACCEPTED"]
        /\ req' = [req EXCEPT ![q].todo = @ \ {i}]
        /\ Close(i.ws, u)
  BY <1>2 DEF JoinNext
<1>4. clock' = clock + 1 /\ UNCHANGED <<known, made, founder, pc>>
  BY DEF JoinNext
<1>5. \A j \in req[q].todo : j.role \in Grantable /\ Invited(q, j.ws, u, j.role)
  BY <1>1, <1>2 DEF UseFits, Records
<1>6. i.ws \in made /\ i.role \in Grantable /\ Invited(q, i.ws, u, i.role)
  BY <1>3, <1>5 DEF Invited
<1>7. /\ RowsFit' /\ SeenFits' /\ MembersFit' /\ InvitationsFit' /\ RolesHold'
      /\ Grows /\ LetsIn
      /\ \A r \in Requests : pc[r] \notin {"new", "done"} => StillInvited(r)
  BY <1>1, <1>2, <1>3, <1>4, <1>6, JoinStep
<1> DEFINE rec == [req[q] EXCEPT !.todo = req[q].todo \ {i}]
<1>8. /\ rec \in Records /\ rec.user = u /\ rec.op = req[q].op
      /\ rec.target = req[q].target /\ rec.todo = req[q].todo \ {i}
  BY <1>1, <1>2 DEF Records
<1>9. req' = [req EXCEPT ![q] = rec]
  BY <1>1, <1>3
<1>10. pc' = [pc EXCEPT ![q] = "joining"] /\ "joining" \in Places
  BY <1>1, <1>4 DEF Places
<1> HIDE DEF rec
<1>11. pc'[q] = "joining" /\ req'[q] = rec
  BY <1>1, <1>9, <1>10
<1>12. \A j \in rec.todo : Invited(q, j.ws, u, j.role)'
  <2>1. ASSUME NEW j \in rec.todo PROVE Invited(q, j.ws, u, j.role)'
    <3>1. Invited(q, j.ws, u, j.role) /\ StillInvited(q) /\ u \in Users
      BY <1>1, <1>5, <1>7, <1>8
    <3>2. QED
      BY <1>7, <3>1, InvitedStays
  <2>2. QED
    BY <2>1
<1>13. UseFits(q, pc[q], req[q])'
  BY <1>1, <1>4, <1>8, <1>11, <1>12 DEF UseFits, InWorkspace, OnRow
<1>14. RequestsFit'
  BY <1>7, <1>8, <1>9, <1>10, <1>13, RequestsStep
<1>15. QED
  BY <1>7, <1>14 DEF MembersInv

LEMMA CreateWorkspaceKeeps ==
  ASSUME MembersInv, NEW q \in Requests, CreateWorkspace(q)
  PROVE  MembersInv' /\ LetsIn
<1>1. /\ pc[q] = "create" /\ pc \in [Requests -> Places] /\ req \in [Requests -> Records]
      /\ UseFits(q, "create", req[q]) /\ known \subseteq Users /\ made \subseteq Workspaces
      /\ Workspaces \subseteq Nat /\ clock \in Nat
      /\ member \in [Workspaces -> [Users -> Rows]]
      /\ founder \in [Workspaces -> Users \cup {NoUser}]
  BY MembersParts, FirstWorkspace DEF CreateWorkspace
<1>2. PICK u \in known : u = req[q].user
  BY <1>1 DEF UseFits
<1> DEFINE row == [role |-> "OWNER", rank |-> clock + 1]
<1>3. PICK w \in Workspaces \ made :
        /\ made' = made \cup {w}
        /\ founder' = [founder EXCEPT ![w] = u]
        /\ member' = [member EXCEPT ![w][u] = row]
        /\ req' = [req EXCEPT ![q].ws = w]
  BY <1>2 DEF CreateWorkspace
<1>4. /\ clock' = clock + 1 /\ pc' = [pc EXCEPT ![q] = "role"] /\ "role" \in Places
      /\ UNCHANGED <<known, invitation, named, chosen, late>>
  BY DEF CreateWorkspace, Goto, seen, Places, InWorkspace
<1>5. row \in Rows /\ row.role = "OWNER" /\ row.rank # 0
  BY <1>1 DEF Rows, Roles
<1> HIDE DEF row
<1>6. u \in Users /\ w \in Workspaces /\ w \notin made
  BY <1>1
<1>7. /\ member' \in [Workspaces -> [Users -> Rows]] /\ member'[w][u] = row
      /\ \A x \in Workspaces, v \in Users :
           x # w \/ v # u => member'[x][v] = member[x][v]
  BY <1>1, <1>3, <1>5, <1>6
<1>8. /\ founder' \in [Workspaces -> Users \cup {NoUser}] /\ founder'[w] = u
      /\ \A x \in Workspaces : x # w => founder'[x] = founder[x]
  BY <1>1, <1>3, <1>6
<1>9. \A v \in Users : ~ IsMember(w, v)
  BY <1>6, MembersParts DEF MembersFit
<1>10. Grows
  BY <1>1, <1>3, <1>4, <1>6, <1>8 DEF Grows
<1>11. \A r \in Requests : StillInvited(r)
  BY <1>4 DEF StillInvited, IsOpen
<1>12. RowsFit' /\ SeenFits'
  <2>1. made' \subseteq Workspaces /\ clock' \in Nat
    BY <1>1, <1>3, <1>4
  <2>2. QED
    BY <1>4, <1>7, <1>8, <2>1, MembersParts DEF RowsFit, SeenFits
<1>13. MembersFit'
  <2>1. ASSUME NEW x \in Workspaces, NEW v \in Users
        PROVE  /\ (member'[x][v].rank = 0) = (member'[x][v].role = "NONE")
               /\ IsMember(x, v)' => x \in made' /\ v \in known'
    <3>1. CASE x = w /\ v = u
      BY <1>3, <1>4, <1>5, <1>7, <3>1
    <3>2. CASE x # w \/ v # u
      BY <1>3, <1>4, <1>7, <3>2, MembersParts DEF MembersFit, IsMember
    <3>3. QED
      BY <3>1, <3>2
  <2>2. \A x \in made' : founder'[x] \in Users
    BY <1>1, <1>3, <1>6, <1>8, MembersParts DEF MembersFit
  <2>3. QED
    BY <2>1, <2>2 DEF MembersFit
<1>14. InvitationsFit'
  BY <1>3, <1>4, MembersParts DEF InvitationsFit
<1>15. RolesAreChosen'
  <2>1. ASSUME NEW x \in made', NEW v \in Users, IsMember(x, v)'
        PROVE  \/ member'[x][v].role \in chosen'[x][v]
               \/ member'[x][v].role = "OWNER" /\ v = founder'[x]
    <3>1. CASE x = w /\ v = u
      BY <1>5, <1>7, <1>8, <3>1
    <3>2. CASE x = w /\ v # u
      BY <1>6, <1>7, <1>9, <2>1, <3>2 DEF IsMember
    <3>3. CASE x # w
      <4>1. x \in made /\ x \in Workspaces
        BY <1>1, <1>3, <3>3
      <4>2. member'[x][v] = member[x][v] /\ founder'[x] = founder[x]
        BY <1>7, <1>8, <3>3, <4>1
      <4>3. QED
        BY <1>4, <2>1, <4>1, <4>2, MembersParts DEF IsMember, RolesHold, RolesAreChosen
    <3>4. QED
      BY <3>1, <3>2, <3>3
  <2>2. QED
    BY <2>1 DEF RolesAreChosen
<1>16. OwnerKept'
  <2>1. ASSUME NEW x \in made', founder'[x] \notin named'[x]
        PROVE  member'[x][founder'[x]].role = "OWNER"
    <3>1. CASE x = w
      BY <1>5, <1>7, <1>8, <3>1
    <3>2. CASE x # w
      <4>1. x \in made /\ x \in Workspaces /\ founder[x] \in Users
        BY <1>1, <1>3, <3>2, MembersParts DEF MembersFit
      <4>2. /\ founder'[x] = founder[x]
            /\ member'[x][founder[x]] = member[x][founder[x]]
        BY <1>7, <1>8, <3>2, <4>1
      <4>3. QED
        BY <1>4, <2>1, <4>1, <4>2, MembersParts DEF RolesHold, OwnerKept
    <3>3. QED
      BY <3>1, <3>2
  <2>2. QED
    BY <2>1 DEF OwnerKept
<1> DEFINE rec == [req[q] EXCEPT !.ws = w]
<1>17. /\ rec \in Records /\ rec.user = u /\ rec.op = req[q].op /\ rec.ws = w
       /\ rec.target = req[q].target /\ req' = [req EXCEPT ![q] = rec]
  <2>1. rec \in Records /\ rec.op = req[q].op /\ rec.ws = w /\ rec.target = req[q].target
    BY <1>1, <1>6 DEF Records
  <2>2. rec.user = u /\ req' = [req EXCEPT ![q] = rec]
    BY <1>1, <1>2, <1>3
  <2>3. QED
    BY <2>1, <2>2
<1> HIDE DEF rec
<1>18. pc'[q] = "role" /\ req'[q] = rec
  BY <1>1, <1>4, <1>17
<1>19. UseFits(q, pc[q], req[q])'
  BY <1>1, <1>3, <1>4, <1>17, <1>18 DEF UseFits, InWorkspace, OnRow
<1>20. RequestsFit'
  BY <1>4, <1>10, <1>11, <1>17, <1>19, RequestsStep
<1>21. LetsIn
  <2>1. \A x \in made, v \in Users : member'[x][v] = member[x][v]
    BY <1>1, <1>6, <1>7
  <2>2. QED
    BY <2>1 DEF LetsIn, IsMember
<1>22. QED
  BY <1>12, <1>13, <1>14, <1>15, <1>16, <1>20, <1>21 DEF MembersInv, RolesHold

\* Fourteen days pass over an open invitation, at any moment of any request.
LEMMA LapseKeeps ==
  ASSUME MembersInv, NEW w \in Workspaces, NEW u \in Users, Lapse(w, u)
  PROVE  MembersInv' /\ LetsIn
<1> DEFINE i == [invitation[w][u] EXCEPT !.over = TRUE]
           under == {r \in Requests : pc[r] \notin {"new", "done"}}
<1>1. /\ IsOpen(w, u) /\ Close(w, u)
      /\ invitation' = [invitation EXCEPT ![w][u].over = TRUE]
      /\ UNCHANGED <<known, made, founder, member, clock, pc, req>>
  BY DEF Lapse
<1>2. /\ invitation \in [Workspaces -> [Users -> Invitations]]
      /\ invitation[w][u] \in Invitations /\ invitation[w][u].status = "PENDING"
  BY <1>1, MembersParts DEF IsOpen
<1>3. /\ w \in made /\ u \in named[w] /\ invitation[w][u].role \in chosen[w][u]
  BY <1>2, MembersParts DEF InvitationsFit
<1>4. /\ i \in Invitations /\ i.status = "PENDING" /\ i.role = invitation[w][u].role
  BY <1>2 DEF Invitations
<1>5. Puts(w, u, i)
  BY <1>1, <1>2 DEF Puts
<1> HIDE DEF i
<1>6. /\ UNCHANGED <<named, chosen>>
      /\ late' = [late EXCEPT ![w][u] = under] /\ under \subseteq Requests
  BY <1>1 DEF Close
<1>7. /\ late' \in [Workspaces -> [Users -> SUBSET Requests]] /\ late'[w][u] = under
      /\ \A x \in Workspaces, v \in Users :
           x # w \/ v # u => late'[x][v] = late[x][v]
  <2> HIDE DEF under
  <2>1. QED
    BY <1>6, MembersParts
<1>8. /\ invitation'[w][u] = i
      /\ \A x \in Workspaces, v \in Users :
           x # w \/ v # u => invitation'[x][v] = invitation[x][v]
  BY <1>2, <1>5 DEF Puts
<1>9. Grows
  <2>1. \A x \in Workspaces, v \in Users :
          invitation[x][v].status # "NONE" => invitation'[x][v].status # "NONE"
    BY <1>4, <1>8
  <2>2. QED
    BY <1>1, <1>6, <2>1 DEF Grows
<1>10. invitation' \in [Workspaces -> [Users -> Invitations]] /\ InvitationsFit'
  BY <1>3, <1>4, <1>5, <1>6, <1>9, InvitationStep
<1>11. /\ RowsFit' /\ SeenFits' /\ MembersFit' /\ RolesHold'
  BY <1>1, <1>6, <1>7, <1>10, MembersParts DEF RowsFit, SeenFits, MembersFit, RolesHold,
     RolesAreChosen, OwnerKept, IsMember
<1>12. ASSUME NEW r \in Requests, pc[r] \notin {"new", "done"} PROVE StillInvited(r)
  <2>1. ASSUME NEW x \in Workspaces, NEW v \in Users, IsOpen(x, v) \/ r \in late[x][v]
        PROVE  IsOpen(x, v)' \/ r \in late'[x][v]
    <3>1. CASE x = w /\ v = u
      BY <1>7, <1>12, <3>1
    <3>2. CASE x # w \/ v # u
      BY <1>7, <1>8, <2>1, <3>2 DEF IsOpen
    <3>3. QED
      BY <3>1, <3>2
  <2>2. QED
    BY <2>1 DEF StillInvited
<1>13. RequestsFit'
  <2>1. \A r \in Requests : UseFits(r, pc[r], req[r])'
    BY <1>1, <1>9, <1>12, RequestStays
  <2>2. QED
    BY <1>1, <2>1, MembersParts DEF RequestsFit
<1>14. QED
  BY <1>1, <1>10, <1>11, <1>13, NobodyNew DEF MembersInv

-----------------------------------------------------------------------------
(* The theorems *)

LEMMA MembersInit ==
  ASSUME Init
  PROVE  MembersInv
<1>1. /\ {Founder, Deputy} \subseteq Users /\ Founder # Deputy
      /\ 1 \in Workspaces /\ NoUser \notin Users
  BY PeopleAreKnown, NobodyIsNoUser, FirstWorkspace
<1>2. /\ made = {1} /\ known = {Founder, Deputy} /\ founder[1] = Founder
      /\ named[1] = {Deputy} /\ chosen[1][Deputy] = {"ADMIN"}
      /\ \A w \in Workspaces, u \in Users :
           /\ invitation[w][u] = NoInvitation
           /\ member[w][u] = CASE w = 1 /\ u = Founder -> [role |-> "OWNER", rank |-> 1]
                               [] w = 1 /\ u = Deputy -> [role |-> "ADMIN", rank |-> 2]
                               [] OTHER -> NoRow
  BY <1>1 DEF Init
<1>3. /\ \A w \in Workspaces, u \in Users :
           member[w][u] \in Rows /\ (member[w][u].rank = 0) = (member[w][u].role = "NONE")
      /\ \A w \in Workspaces, u \in Users :
           IsMember(w, u) => w = 1 /\ u \in {Founder, Deputy}
      /\ member[1][Founder].role = "OWNER" /\ member[1][Deputy].role = "ADMIN"
  BY <1>1, <1>2 DEF IsMember, NoRow, Rows, Roles
<1>4. founder \in [Workspaces -> Users \cup {NoUser}]
  BY <1>1 DEF Init
<1>5. member \in [Workspaces -> [Users -> Rows]]
  BY <1>3 DEF Init
<1>6. NoInvitation \in Invitations /\ NoInvitation.status = "NONE"
  BY DEF NoInvitation, Invitations, Statuses, Grantable
<1>7. invitation \in [Workspaces -> [Users -> Invitations]]
  BY <1>6 DEF Init
<1>8. RowsFit
  BY <1>1, <1>2, <1>4, <1>5, <1>7 DEF Init, RowsFit
<1>9. SeenFits
  BY <1>1 DEF Init, SeenFits, Grantable
<1>10. MembersFit /\ InvitationsFit /\ RolesHold
  BY <1>1, <1>2, <1>3, <1>6 DEF MembersFit, InvitationsFit, RolesHold,
     RolesAreChosen, OwnerKept, IsMember
<1>11. RequestsFit
  <2>1. NoRequest \in Records
    BY FinishedFits
  <2>2. \A q \in Requests : UseFits(q, "new", NoRequest)
    BY DEF NoRequest, UseFits, OnMembers, OnRow, InWorkspace
  <2>3. QED
    BY <2>1, <2>2 DEF Init, RequestsFit, Places
<1>12. QED
  BY <1>8, <1>9, <1>10, <1>11 DEF MembersInv

LEMMA StepKeeps ==
  ASSUME MembersInv, NEW q \in Requests, Step(q)
  PROVE  MembersInv' /\ LetsIn
<1>1. CASE Answer(q)
  BY <1>1, FinishKeeps DEF Answer
<1>2. CASE Gone(q)
  BY <1>2, FinishKeeps DEF Gone
<1>3. CASE Context(q) \/ ReadPending(q) \/ Ensure(q) \/ ReadRole(q) \/ LookUp(q)
        \/ FindMember(q) \/ ReadInvitation(q)
  BY <1>3, ContextKeeps, ReadPendingKeeps, EnsureKeeps, ReadRoleKeeps, LookUpKeeps,
     FindMemberKeeps, ReadInvitationKeeps
<1>4. CASE JoinNext(q) \/ CreateWorkspace(q) \/ Accept(q)
  BY <1>4, JoinNextKeeps, CreateWorkspaceKeeps, AcceptKeeps
<1>5. CASE AddMember(q) \/ WriteInvitation(q) \/ UpdateRole(q) \/ RemoveMember(q)
        \/ Revoke(q) \/ MarkExpired(q)
  BY <1>5, AddMemberKeeps, WriteInvitationKeeps, UpdateRoleKeeps, RemoveMemberKeeps,
     RevokeKeeps, MarkExpiredKeeps
<1>6. QED
  BY <1>1, <1>2, <1>3, <1>4, <1>5 DEF Step

LEMMA NextKeeps ==
  ASSUME MembersInv, Next
  PROVE  MembersInv' /\ LetsIn
<1>1. ASSUME NEW q \in Requests, NEW u \in Users, SignUp(q, u)
      PROVE  MembersInv' /\ LetsIn
  BY <1>1, SignUpKeeps
<1>2. ASSUME NEW q \in Requests, NEW u \in Users, Ask(q, u, "load", NoUser, "MEMBER")
      PROVE  MembersInv' /\ LetsIn
  BY <1>2, AskKeeps DEF OnMembers, Grantable
<1>3. ASSUME NEW q \in Requests, NEW u \in Users, NEW t \in Users,
             NEW role \in Grantable, NEW op \in {"invite", "update", "remove", "revoke"},
             Ask(q, u, op, t, role)
      PROVE  MembersInv' /\ LetsIn
  BY <1>3, AskKeeps DEF OnMembers
<1>4. ASSUME NEW q \in Requests, NEW u \in Users, NEW token \in 1..clock,
             Follow(q, u, token)
      PROVE  MembersInv' /\ LetsIn
  BY <1>4, FollowKeeps, MembersParts
<1>5. ASSUME NEW q \in Requests, Step(q)
      PROVE  MembersInv' /\ LetsIn
  BY <1>5, StepKeeps
<1>6. ASSUME NEW w \in Workspaces, NEW u \in Users, Lapse(w, u)
      PROVE  MembersInv' /\ LetsIn
  BY <1>6, LapseKeeps
<1>7. "MEMBER" \in Grantable
  BY DEF Grantable
<1>8. QED
  BY <1>1, <1>2, <1>3, <1>4, <1>5, <1>6, <1>7 DEF Next

LEMMA StutterKeeps ==
  ASSUME MembersInv, UNCHANGED vars
  PROVE  MembersInv'
BY DEF MembersInv, vars, rows, seen, RowsFit, SeenFits, MembersFit, InvitationsFit,
   RequestsFit, UseFits, Invited, IsOpen, RolesHold, RolesAreChosen, OwnerKept, IsMember

\* The rows fit each other, and every request has read what was true when it
\* read it: the inductive invariant of the two theorems that follow.
THEOREM MembersInvariance == Spec => []MembersInv
<1>1. Init => MembersInv
  BY MembersInit
<1>2. MembersInv /\ [Next]_vars => MembersInv'
  BY NextKeeps, StutterKeeps
<1>3. QED
  BY <1>1, <1>2, PTL DEF Spec

\* Every variable of the members has its type.
THEOREM MembersTypeCorrect == Spec => []TypeOK
<1>1. MembersInv => TypeOK
  <2> SUFFICES ASSUME MembersInv PROVE TypeOK
    OBVIOUS
  <2>1. known \subseteq Users /\ made \subseteq Workspaces /\ clock \in Nat
    BY MembersParts
  <2>2. ASSUME NEW w \in Workspaces, NEW u \in Users
        PROVE  /\ member[w][u].role \in Roles \cup {"NONE"}
               /\ (member[w][u].rank = 0) = (member[w][u].role = "NONE")
               /\ IsMember(w, u) => w \in made /\ u \in known
               /\ invitation[w][u].status \in Statuses
    BY MembersParts DEF MembersFit, Rows, Invitations
  <2>3. ASSUME NEW q \in Requests,
               pc[q] \in {"handler", "add", "write", "update", "remove", "accept"}
        PROVE  req[q].ws \in made
    BY <2>3, MembersParts DEF UseFits, InWorkspace, OnRow
  <2>4. QED
    BY <2>1, <2>2, <2>3 DEF TypeOK
<1>2. QED
  BY <1>1, MembersInvariance, PTL

\* For any people, requests and workspaces, nobody has a role that no manager
\* chose for him, and a founder nobody invited stays the owner of what he made.
THEOREM RolesAreHeld == Spec => []RolesHold
<1>1. MembersInv => RolesHold
  BY DEF MembersInv
<1>2. QED
  BY <1>1, MembersInvariance, PTL

\* For any people, requests and workspaces, an invitation that was used, revoked
\* or lapsed lets in only who asked before.
THEOREM OnlyInvited == Spec => OpenInvitationOnly
<1>1. MembersInv /\ [Next]_vars => [LetsIn]_vars
  BY NextKeeps
<1>2. QED
  BY <1>1, MembersInvariance, PTL DEF Spec, OpenInvitationOnly, LetsIn
=============================================================================
