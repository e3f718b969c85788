------------------------------ MODULE Members ------------------------------
(***************************************************************************)
(* Workspaces, their members and their invitations.  A request first finds *)
(* the workspace it acts in (getCurrentWorkspaceContext), which for a user *)
(* without one accepts his invitations or creates a workspace; then its    *)
(* handler reads a row, decides, and writes by id.  Every query is a step, *)
(* so that two requests interleave between any two of them.                *)
(*                                                                         *)
(* An address and its user are one thing here: normalizeInvitationEmail    *)
(* makes them equal, and the User row exists from the first sign-in on.    *)
(***************************************************************************)
EXTENDS Naturals, FiniteSets

CONSTANTS
  Users,       \* people, by their normalized address
  Founder,     \* the owner of the first workspace
  Deputy,      \* an admin of it
  Requests,    \* requests to the server, each used once
  Workspaces,  \* workspaces that may come to exist, 1..n
  NoUser       \* a request not yet made has this user

ASSUME PeopleAreKnown == {Founder, Deputy} \subseteq Users /\ Founder # Deputy
ASSUME NobodyIsNoUser == NoUser \notin Users
ASSUME FirstWorkspace == 1 \in Workspaces /\ Workspaces \subseteq Nat

Roles == {"MEMBER", "ADMIN", "OWNER"}
Grantable == {"MEMBER", "ADMIN"}
Statuses == {"NONE", "PENDING", "ACCEPTED", "REVOKED", "EXPIRED"}

VARIABLES
  known,      \* users with a User row
  made,       \* workspaces created so far
  founder,    \* founder[w]: Workspace.ownerId
  member,     \* member[w][u]: role and rank of the WorkspaceMember row; the
              \* rank is both its id and its place in the order of createdAt
  invitation, \* invitation[w][u]: the WorkspaceInvitation row
  clock,      \* rows and tokens made so far
  pc,         \* pc[q]: where request q is
  req,        \* req[q]: what it asks and what it has read
  named,      \* named[w]: users an invitation to w has named (observation)
  chosen,     \* chosen[w][u]: roles managers of w gave u (observation)
  late        \* late[w][u]: requests under way when u's invitation to w was
              \* last closed (observation)

rows == <<known, made, founder, member, invitation, clock>>
seen == <<named, chosen, late>>
vars == <<rows, pc, req, seen>>

NoRow == [role |-> "NONE", rank |-> 0]
NoInvitation == [status |-> "NONE", role |-> "MEMBER", token |-> 0, over |-> FALSE]
NoRequest == [user |-> NoUser, op |-> "load", target |-> NoUser, role |-> "MEMBER",
              token |-> 0, ws |-> 0, as |-> "NONE", rank |-> 0, todo |-> {}]

IsMember(w, u) == member[w][u].role # "NONE"
Memberships(u) == {w \in made : IsMember(w, u)}

\* The oldest membership of u: findFirst with orderBy createdAt asc.
PrimaryOf(u) == CHOOSE w \in Memberships(u) :
                  \A x \in Memberships(u) : member[w][u].rank <= member[x][u].rank

canManageWorkspace(role) == role \in {"ADMIN", "OWNER"}

Goto(q, place) == pc' = [pc EXCEPT ![q] = place]

IsOpen(w, u) == invitation[w][u].status = "PENDING" /\ ~ invitation[w][u].over

\* The invitation of u to w is used, revoked or over, if it was not before.
Close(w, u) ==
  /\ late' = IF IsOpen(w, u)
               THEN [late EXCEPT ![w][u] = {q \in Requests : pc[q] \notin {"new", "done"}}]
               ELSE late
  /\ UNCHANGED <<named, chosen>>

\* The answer is sent: nothing of the request remains.
Finish(q) == Goto(q, "done") /\ req' = [req EXCEPT ![q] = NoRequest]

\* The upsert of a WorkspaceMember row: an existing row keeps its rank.
Upserted(w, u, role) ==
  [member EXCEPT ![w][u] = [role |-> role,
                            rank |-> IF IsMember(w, u) THEN @.rank ELSE clock + 1]]

Init ==
  /\ known = {Founder, Deputy}
  /\ made = {1}
  /\ founder = [w \in Workspaces |-> IF w = 1 THEN Founder ELSE NoUser]
  /\ member = [w \in Workspaces |-> [u \in Users |->
                 CASE w = 1 /\ u = Founder -> [role |-> "OWNER", rank |-> 1]
                   [] w = 1 /\ u = Deputy -> [role |-> "ADMIN", rank |-> 2]
                   [] OTHER -> NoRow]]
  /\ invitation = [w \in Workspaces |-> [u \in Users |-> NoInvitation]]
  /\ clock = 2
  /\ pc = [q \in Requests |-> "new"]
  /\ req = [q \in Requests |-> NoRequest]
  /\ named = [w \in Workspaces |-> IF w = 1 THEN {Deputy} ELSE {}]
  /\ late = [w \in Workspaces |-> [u \in Users |-> {}]]
  /\ chosen = [w \in Workspaces |-> [u \in Users |->
                 IF w = 1 /\ u = Deputy THEN {"ADMIN"} ELSE {}]]

-----------------------------------------------------------------------------
(* Requests and the workspace they act in *)

\* The first sign-in of an address creates its User row, and the createUser
\* event calls ensureWorkspaceForUser.
SignUp(q, u) ==
  /\ pc[q] = "new" /\ u \notin known
  /\ known' = known \cup {u}
  /\ Goto(q, "pending")
  /\ req' = [req EXCEPT ![q].user = u, ![q].op = "signup"]
  /\ UNCHANGED <<made, founder, member, invitation, clock, seen>>

\* A signed-in user calls the members API; GET is "load".
Ask(q, u, op, t, role) ==
  /\ pc[q] = "new" /\ u \in known
  /\ Goto(q, "context")
  /\ req' = [req EXCEPT ![q].user = u, ![q].op = op, ![q].target = t, ![q].role = role]
  /\ UNCHANGED <<rows, seen>>

\* A signed-in user follows an invitation link; this handler needs no workspace.
Follow(q, u, token) ==
  /\ pc[q] = "new" /\ u \in known /\ token \in 1..clock
  /\ \E w \in made, x \in Users : invitation[w][x].token = token
  /\ Goto(q, "invited")
  /\ req' = [req EXCEPT ![q].user = u, ![q].op = "accept", ![q].token = token]
  /\ UNCHANGED <<rows, seen>>

Context(q) ==
  LET u == req[q].user IN
  /\ pc[q] = "context"
  /\ IF Memberships(u) # {}
       THEN /\ Goto(q, "handler")
            /\ req' = [req EXCEPT ![q].ws = PrimaryOf(u),
                                  ![q].as = member[PrimaryOf(u)][u].role]
       ELSE Goto(q, "pending") /\ UNCHANGED req
  /\ UNCHANGED <<rows, seen>>

\* A slip: a revocation deletes nothing and is not looked at.
ReadPendingAnyStatus(q) ==
  LET u == req[q].user IN
  /\ pc[q] = "pending"
  /\ Goto(q, "joining")
  /\ req' = [req EXCEPT ![q].todo =
               {[ws |-> w, role |-> invitation[w][u].role] :
                  w \in {x \in made : invitation[x][u].status # "NONE"}}]
  /\ UNCHANGED <<rows, seen>>

\* acceptPendingInvitationsForUser: the open invitations, read once.
ReadPending(q) ==
  LET u == req[q].user IN
  /\ pc[q] = "pending"
  /\ Goto(q, "joining")
  /\ req' = [req EXCEPT ![q].todo =
               {[ws |-> w, role |-> invitation[w][u].role] :
                  w \in {x \in made : IsOpen(x, u)}}]
  /\ UNCHANGED <<rows, seen>>

\* One invitation of the loop: a transaction over the member and the row.
JoinNext(q) ==
  LET u == req[q].user IN
  /\ pc[q] = "joining"
  /\ \E i \in req[q].todo :
       /\ member' = Upserted(i.ws, u, i.role)
       /\ invitation' = [invitation EXCEPT ![i.ws][u].status = "ACCEPTED"]
       /\ req' = [req EXCEPT ![q].todo = @ \ {i}]
       /\ Close(i.ws, u)
  /\ clock' = clock + 1
  /\ UNCHANGED <<known, made, founder, pc>>

\* getWorkspaceMembership after the loop; a new workspace when there is none.
Ensure(q) ==
  LET u == req[q].user IN
  /\ pc[q] = "joining" /\ req[q].todo = {}
  /\ IF Memberships(u) # {}
       THEN /\ Goto(q, "role")
            /\ req' = [req EXCEPT ![q].ws = PrimaryOf(u)]
       ELSE Goto(q, "create") /\ UNCHANGED req
  /\ UNCHANGED <<rows, seen>>

CreateWorkspace(q) ==
  LET u == req[q].user IN
  /\ pc[q] = "create"
  /\ \E w \in Workspaces \ made :
       /\ \A x \in Workspaces \ made : w <= x
       /\ made' = made \cup {w}
       /\ founder' = [founder EXCEPT ![w] = u]
       /\ member' = [member EXCEPT ![w][u] = [role |-> "OWNER", rank |-> clock + 1]]
       /\ req' = [req EXCEPT ![q].ws = w]
  /\ clock' = clock + 1
  /\ Goto(q, "role")
  /\ UNCHANGED <<known, invitation, seen>>

\* The role of the membership found or made: OWNER when it is gone again.
ReadRole(q) ==
  LET r == member[req[q].ws][req[q].user].role IN
  /\ pc[q] = "role"
  /\ IF req[q].op = "signup"
       THEN Finish(q)
       ELSE /\ Goto(q, "handler")
            /\ req' = [req EXCEPT ![q].as = IF r = "NONE" THEN "OWNER" ELSE r]
  /\ UNCHANGED <<rows, seen>>

-----------------------------------------------------------------------------
(* Handlers *)

\* GET, and 403 for a member who may not manage.
Answer(q) ==
  /\ pc[q] = "handler"
  /\ req[q].op = "load" \/ ~ canManageWorkspace(req[q].as)
  /\ Finish(q)
  /\ UNCHANGED <<rows, seen>>

Manages(q, op) ==
  pc[q] = "handler" /\ req[q].op = op /\ canManageWorkspace(req[q].as)

\* POST: whether the address has a user decides between row and invitation.
LookUp(q) ==
  /\ Manages(q, "invite")
  /\ Goto(q, IF req[q].target \in known THEN "add" ELSE "write")
  /\ UNCHANGED <<rows, req, seen>>

Chooses(q) ==
  /\ chosen' = [chosen EXCEPT ![req[q].ws][req[q].target] = @ \cup {req[q].role}]
  /\ Finish(q)
  /\ UNCHANGED <<known, made, founder, late>>

AddMember(q) ==
  /\ pc[q] = "add"
  /\ member' = Upserted(req[q].ws, req[q].target, req[q].role)
  /\ clock' = clock + 1
  /\ named' = [named EXCEPT ![req[q].ws] = @ \cup {req[q].target}]
  /\ Chooses(q)
  /\ UNCHANGED invitation

WriteInvitation(q) ==
  /\ pc[q] = "write"
  /\ invitation' = [invitation EXCEPT ![req[q].ws][req[q].target] =
                      [status |-> "PENDING", role |-> req[q].role,
                       token |-> clock + 1, over |-> FALSE]]
  /\ clock' = clock + 1
  /\ named' = [named EXCEPT ![req[q].ws] = @ \cup {req[q].target}]
  /\ Chooses(q)
  /\ UNCHANGED member

\* A slip: an owner is a member like any other.
FindAnyMember(q) ==
  LET m == member[req[q].ws][req[q].target] IN
  /\ Manages(q, "update") \/ Manages(q, "remove")
  /\ IF m.role = "NONE"
       THEN Finish(q)
       ELSE Goto(q, req[q].op) /\ req' = [req EXCEPT ![q].rank = m.rank]
  /\ UNCHANGED <<rows, seen>>

\* PATCH and DELETE read the row by its id within the workspace.
FindMember(q) ==
  LET m == member[req[q].ws][req[q].target]
      self == req[q].op = "remove" /\ req[q].target = req[q].user
  IN
  /\ Manages(q, "update") \/ Manages(q, "remove")
  /\ IF m.role \in {"NONE", "OWNER"} \/ self
       THEN Finish(q)
       ELSE Goto(q, req[q].op) /\ req' = [req EXCEPT ![q].rank = m.rank]
  /\ UNCHANGED <<rows, seen>>

\* The row found is still there; Prisma throws when it is not.
SameRow(q) ==
  LET m == member[req[q].ws][req[q].target] IN
  m.role # "NONE" /\ m.rank = req[q].rank

UpdateRole(q) ==
  /\ pc[q] = "update" /\ SameRow(q)
  /\ member' = [member EXCEPT ![req[q].ws][req[q].target].role = req[q].role]
  /\ Chooses(q)
  /\ UNCHANGED <<invitation, clock, named>>

RemoveMember(q) ==
  /\ pc[q] = "remove" /\ SameRow(q)
  /\ member' = [member EXCEPT ![req[q].ws][req[q].target] = NoRow]
  /\ Finish(q)
  /\ UNCHANGED <<known, made, founder, invitation, clock, seen>>

Gone(q) ==
  /\ pc[q] \in {"update", "remove"} /\ ~ SameRow(q)
  /\ Finish(q)
  /\ UNCHANGED <<rows, seen>>

Revoke(q) ==
  /\ Manages(q, "revoke")
  /\ invitation' = [invitation EXCEPT ![req[q].ws][req[q].target].status =
                      IF @ = "PENDING" THEN "REVOKED" ELSE @]
  /\ Close(req[q].ws, req[q].target)
  /\ Finish(q)
  /\ UNCHANGED <<known, made, founder, member, clock>>

\* A slip: the address of the invitation is not compared with the session's.
ReadInvitationOfAnyone(q) ==
  LET Open(w, x) == /\ invitation[w][x].token = req[q].token
                    /\ invitation[w][x].status = "PENDING"
  IN
  /\ pc[q] = "invited"
  /\ \/ \E w \in made, x \in Users :
          /\ Open(w, x)
          /\ Goto(q, IF invitation[w][x].over THEN "expire" ELSE "accept")
          /\ req' = [req EXCEPT ![q].ws = w, ![q].target = x,
                                ![q].role = invitation[w][x].role]
     \/ (\A w \in made, x \in Users : ~ Open(w, x)) /\ Finish(q)
  /\ UNCHANGED <<rows, seen>>

\* The accept route: the invitation of the token, and its four refusals.
ReadInvitation(q) ==
  LET Open(w, x) == /\ invitation[w][x].token = req[q].token
                    /\ invitation[w][x].status = "PENDING"
  IN
  /\ pc[q] = "invited"
  /\ \/ \E w \in made, x \in Users :
          /\ Open(w, x)
          /\ IF ~ invitation[w][x].over /\ x # req[q].user
               THEN Finish(q)
               ELSE /\ Goto(q, IF invitation[w][x].over THEN "expire" ELSE "accept")
                    /\ req' = [req EXCEPT ![q].ws = w, ![q].target = x,
                                          ![q].role = invitation[w][x].role]
     \/ (\A w \in made, x \in Users : ~ Open(w, x)) /\ Finish(q)
  /\ UNCHANGED <<rows, seen>>

\* By the id of the row read, though it may have been written anew since.
MarkExpired(q) ==
  /\ pc[q] = "expire"
  /\ invitation' = [invitation EXCEPT ![req[q].ws][req[q].target].status = "EXPIRED"]
  /\ Close(req[q].ws, req[q].target)
  /\ Finish(q)
  /\ UNCHANGED <<known, made, founder, member, clock>>

Accept(q) ==
  /\ pc[q] = "accept"
  /\ member' = Upserted(req[q].ws, req[q].user, req[q].role)
  /\ invitation' = [invitation EXCEPT ![req[q].ws][req[q].target].status = "ACCEPTED"]
  /\ clock' = clock + 1
  /\ Close(req[q].ws, req[q].target)
  /\ Finish(q)
  /\ UNCHANGED <<known, made, founder>>

\* Fourteen days pass.
Lapse(w, u) ==
  /\ IsOpen(w, u)
  /\ invitation' = [invitation EXCEPT ![w][u].over = TRUE]
  /\ Close(w, u)
  /\ UNCHANGED <<known, made, founder, member, clock, pc, req>>

Step(q) ==
  \/ Context(q) \/ ReadPending(q) \/ JoinNext(q) \/ Ensure(q) \/ CreateWorkspace(q)
  \/ ReadRole(q) \/ Answer(q) \/ LookUp(q) \/ AddMember(q) \/ WriteInvitation(q)
  \/ FindMember(q) \/ UpdateRole(q) \/ RemoveMember(q) \/ Gone(q) \/ Revoke(q)
  \/ ReadInvitation(q) \/ MarkExpired(q) \/ Accept(q)

Next ==
  \/ \E q \in Requests, u \in Users : SignUp(q, u)
  \/ \E q \in Requests, u, t \in Users :
       \/ Ask(q, u, "load", NoUser, "MEMBER")
       \/ \E role \in Grantable, op \in {"invite", "update"} : Ask(q, u, op, t, role)
       \/ \E op \in {"remove", "revoke"} : Ask(q, u, op, t, "MEMBER")
  \/ \E q \in Requests, u \in Users, token \in 1..clock : Follow(q, u, token)
  \/ \E q \in Requests : Step(q)
  \/ \E w \in Workspaces, u \in Users : Lapse(w, u)

Spec == Init /\ [][Next]_vars

-----------------------------------------------------------------------------
(* Properties *)

\* Every variable has its type; a request past its context knows its workspace.
TypeOK ==
  /\ known \subseteq Users /\ made \subseteq Workspaces /\ clock \in Nat
  /\ \A w \in Workspaces, u \in Users :
       /\ member[w][u].role \in Roles \cup {"NONE"}
       /\ (member[w][u].rank = 0) = (member[w][u].role = "NONE")
       /\ IsMember(w, u) => w \in made /\ u \in known
       /\ invitation[w][u].status \in Statuses
  /\ \A q \in Requests : pc[q] \in {"handler", "add", "write", "update", "remove", "accept"}
                           /\ req[q].op # "accept" => req[q].ws \in made

\* PATCH and DELETE spare an owner, and nothing makes one: the founder of a
\* workspace stays its owner until an invitation names his own address, which
\* writes the invited role over his.
OwnerKept ==
  \A w \in made : founder[w] \notin named[w] => member[w][founder[w]].role = "OWNER"

\* Nobody has a role in a workspace that no manager of it ever chose for him:
\* whatever links are followed, by whom, and however requests interleave.
RolesAreChosen ==
  \A w \in made, u \in Users :
    IsMember(w, u) => \/ member[w][u].role \in chosen[w][u]
                      \/ member[w][u].role = "OWNER" /\ u = founder[w]

\* An invitation that is used, revoked or lapsed lets nobody in who comes
\* later: who joins is added by a manager, or has an open invitation, or asked
\* before it was closed (the status is read before the write and not after).
OpenInvitationOnly ==
  [][\A w \in made, u \in Users :
       ~ IsMember(w, u) /\ IsMember(w, u)' =>
         \/ IsOpen(w, u)
         \/ \E q \in late[w][u] : pc[q] # "done" /\ req[q].user = u
         \/ \E q \in Requests : pc[q] = "add" /\ req[q].target = u /\ req[q].ws = w]_vars

\* What requests may not do to the roles, one after the other or at once: nobody has
\* one that was not chosen for him, and a workspace keeps its owner.
RolesHold == RolesAreChosen /\ OwnerKept
=============================================================================
