------------------------------- MODULE Inbox -------------------------------
(***************************************************************************)
(* The ActivityPub inbox of an agent: the HTTP handler                     *)
(* (src/src/social/server.ts), which waits for the body and then for the   *)
(* public key of the signer (src/src/social/http-signatures.ts), and the   *)
(* inbox itself (src/src/social/inbox.ts), which keeps the followers and   *)
(* passes direct messages on.  Requests overlap, and are handled in the    *)
(* order in which their waits end.                                         *)
(*                                                                         *)
(* What a body says is its kind: a Follow, the Undo of a Follow, a direct  *)
(* message, an activity that is acknowledged (the Undo of anything else, a *)
(* public message, Like, Announce, Delete), one that is refused (another   *)
(* type, a Create without a text), or one over which the inbox throws.  It *)
(* also names its actor.  The signature is over headers, by a signer that  *)
(* they name; nothing compares the signer with the actor, or the digest    *)
(* among the headers with the body, so the one says nothing of the other.  *)
(***************************************************************************)
EXTENDS Naturals, Sequences

CONSTANTS
  ApActors,         \* the actors that a body may name
  ApSigners,        \* the actors whose keys requests are signed with
  CheckSignatures,  \* ~disableSignatureVerification
  HasTaskHandler,   \* whether the inbox was given onTaskRequest
  MaxPosts          \* bound: requests posted

ASSUME InboxAssumption == {CheckSignatures, HasTaskHandler} \subseteq BOOLEAN /\ MaxPosts \in Nat

VARIABLES
  posts,            \* the requests in the order of their arrival
  followers,        \* the keys of the followers table
  apOverlap         \* history: actors of which two requests were under way at once

inboxVars == <<posts, followers, apOverlap>>

InboxInit == posts = <<>> /\ followers = {} /\ apOverlap = {}

Kinds == {"Follow", "UndoFollow", "DirectMessage", "acknowledged", "refused", "throws"}

Waiting == {"body", "key", "handler"}
\* A request that has not been answered yet has the answer 0.
Posts == [signer : ApSigners, actor : ApActors, kind : Kinds, waitsFor : Waiting \cup {"nothing"},
          answer : {0, 200, 202, 400, 401, 500}]

Reply(i, status) ==
  posts' = [posts EXCEPT ![i].waitsFor = "nothing", ![i].answer = status]

\* A POST to /inbox, with headers of signer and a body about x; readBody waits for
\* the body.
handlePostInbox(signer, x, kind) ==
  /\ Len(posts) < MaxPosts
  /\ posts' = Append(posts, [signer |-> signer, actor |-> x, kind |-> kind,
                             waitsFor |-> "body", answer |-> 0])
  /\ apOverlap' = apOverlap \cup
       {y \in {x} : \E i \in DOMAIN posts : posts[i].actor = y /\ posts[i].waitsFor # "nothing"}
  /\ UNCHANGED followers

handleFollow(i) == Reply(i, 200) /\ followers' = followers \cup {posts[i].actor}

\* Mutant of handleUndo: the Undo is acknowledged only.
handleUndoNot(i) == Reply(i, 202) /\ UNCHANGED followers

handleUndo(i) == Reply(i, 202) /\ followers' = followers \ {posts[i].actor}

\* A direct message waits for the handler of task requests; without a handler it is
\* acknowledged.
handleDirectMessage(i) ==
  /\ IF HasTaskHandler THEN posts' = [posts EXCEPT ![i].waitsFor = "handler"]
     ELSE Reply(i, 202)
  /\ UNCHANGED followers

\* What the inbox does with an activity and the server answers.
receive(i) ==
  CASE posts[i].kind = "Follow" -> handleFollow(i)
    [] posts[i].kind = "UndoFollow" -> handleUndo(i)
    [] posts[i].kind = "DirectMessage" -> handleDirectMessage(i)
    [] posts[i].kind = "acknowledged" -> Reply(i, 202) /\ UNCHANGED followers
    [] posts[i].kind = "refused" -> Reply(i, 400) /\ UNCHANGED followers
    [] posts[i].kind = "throws" -> Reply(i, 500) /\ UNCHANGED followers

\* The body is there and is JSON: its signature is next, if it has one.
BodyRead(i) ==
  /\ posts[i].waitsFor = "body"
  /\ IF CheckSignatures
       THEN /\ \/ posts' = [posts EXCEPT ![i].waitsFor = "key"]
               \/ Reply(i, 401)
            /\ UNCHANGED followers
       ELSE receive(i)
  /\ UNCHANGED apOverlap

\* There is no body, it is longer than a megabyte, the connection breaks, or what it
\* holds is no JSON.
BodyUnusable(i) ==
  /\ posts[i].waitsFor = "body" /\ Reply(i, 400)
  /\ UNCHANGED <<followers, apOverlap>>

\* The signer's key has arrived and the signature holds; what is done is what the
\* body says, in the name of the actor in the body.
SignatureVerified(i) ==
  /\ posts[i].waitsFor = "key" /\ receive(i)
  /\ UNCHANGED apOverlap

\* The key cannot be had (in ten seconds), or the signature does not hold.
SignatureRejected(i) ==
  /\ posts[i].waitsFor = "key" /\ Reply(i, 401)
  /\ UNCHANGED <<followers, apOverlap>>

\* The handler's answer, or an apology when it throws.
TaskRequestAnswered(i) ==
  /\ posts[i].waitsFor = "handler" /\ Reply(i, 200)
  /\ UNCHANGED <<followers, apOverlap>>

InboxNext ==
  \/ \E signer \in ApSigners, x \in ApActors, kind \in Kinds : handlePostInbox(signer, x, kind)
  \/ \E i \in DOMAIN posts :
       \/ BodyRead(i) \/ BodyUnusable(i)
       \/ SignatureVerified(i) \/ SignatureRejected(i)
       \/ TaskRequestAnswered(i)

InboxSpec == InboxInit /\ [][InboxNext]_inboxVars

-----------------------------------------------------------------------------
(* Properties.                                                             *)

InboxTypeOK ==
  /\ posts \in Seq(Posts) /\ Len(posts) <= MaxPosts
  /\ \A i \in DOMAIN posts : (posts[i].waitsFor = "nothing") <=> (posts[i].answer # 0)
  /\ followers \subseteq ApActors /\ apOverlap \subseteq ApActors

\* The requests in the name of x that have changed its place in the table, in the
\* order they were posted.
FollowChanges(x) ==
  {i \in DOMAIN posts : /\ posts[i].actor = x
                        /\ \/ posts[i].kind = "Follow" /\ posts[i].answer = 200
                           \/ posts[i].kind = "UndoFollow" /\ posts[i].answer = 202}

\* An actor is a follower exactly when the last request in its name, whoever signed
\* it, says so, although requests are handled in the order in which the keys arrive
\* - unless one was posted in its name before the last was answered.  A Follow in
\* its name was accepted in any case (handlePostInbox, handleFollow, handleUndo).
FollowersInOrder ==
  \A x \in ApActors :
    /\ x \in followers =>
         \E i \in FollowChanges(x) : posts[i].kind = "Follow"
    /\ x \notin apOverlap =>
         (x \in followers <=>
            \E i \in FollowChanges(x) :
              posts[i].kind = "Follow" /\ \A j \in FollowChanges(x) : j <= i)

\* "Verify HTTP signature for authenticity" (the comment in handlePostInbox): a
\* follower has signed a Follow of its own.
FollowersSigned ==
  CheckSignatures => \A x \in followers :
    \E i \in FollowChanges(x) : posts[i].kind = "Follow" /\ posts[i].signer = x
=============================================================================
