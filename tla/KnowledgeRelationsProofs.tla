----------------------- MODULE KnowledgeRelationsProofs -----------------------
(***************************************************************************)
(* Decisions on proposed relations stand, for every number of reviewers,   *)
(* documents and calls.                                                    *)
(*                                                                         *)
(* What must be known of the rows: the ends of a proposal are stored       *)
(* documents, no id is used twice, every relation is that of an approved   *)
(* proposal and every approved proposal has exactly one.  With that, a     *)
(* proposal that is no longer pending keeps its status, and so the answers *)
(* that told it, and the calls that are about to tell it, stay right.      *)
(***************************************************************************)
EXTENDS KnowledgeRelations, TLAPS

ProposalShape(p) ==
  p = [id |-> p.id, from |-> p.from, to |-> p.to, type |-> p.type, effect |-> p.effect,
       direction |-> p.direction, status |-> p.status]

RelationShape(r) ==
  r = [id |-> r.id, from |-> r.from, to |-> r.to, type |-> r.type, effect |-> r.effect,
       weight |-> r.weight, direction |-> r.direction, proposal |-> r.proposal,
       disabled |-> r.disabled]

ProposalsHold ==
  /\ issued \in Nat
  /\ \A p \in proposals : /\ ProposalShape(p)
                          /\ p.id \in 1..issued
                          /\ p.from \in documents /\ p.to \in documents
  /\ \A p, q \in proposals : p.id = q.id => p = q

RelationsHold ==
  /\ \A r \in relations : /\ RelationShape(r)
                          /\ \E p \in proposals : p.status = "approved" /\ Derives(p, r)
  /\ ApprovalsHaveRelations

\* A proposal with this id is decided.
Settled(id) == id \in 1..issued /\ \A p \in proposals : p.id = id => p.status # "pending"

StageHolds(stage) == stage.stage = "decided" => Settled(stage.id)

AnswerHolds(a) ==
  a.code \in {200, 409} =>
    \/ a.proposal = 0
    \/ Settled(a.proposal) /\ \A p \in proposals : p.id = a.proposal => p.status = a.status

CallsHold ==
  /\ DOMAIN doing = Clients
  /\ DOMAIN answer = Clients
  /\ \A c \in Clients : StageHolds(doing[c]) /\ AnswerHolds(answer[c])

IInv == ProposalsHold /\ RelationsHold /\ CallsHold

----------------------------------------------------------------------------
\* The ends, and where it begins

\* The parts of the property follow from those of the invariant: no answer
\* names a stored proposal with another status, a relation that is followed
\* is that of an approved proposal between stored documents.
LEMMA InvariantSuffices == IInv => DecisionsStand
<1> SUFFICES ASSUME IInv PROVE DecisionsStand
  OBVIOUS
<1>1. AnswersHold
  <2> SUFFICES ASSUME NEW c \in Clients, NEW p \in proposals,
                      answer[c].code \in {200, 409}, answer[c].proposal = p.id
               PROVE  p.status = answer[c].status
    BY DEF AnswersHold
  <2>1. AnswerHolds(answer[c])
    BY DEF IInv, CallsHold
  <2>2. p.id # 0
    BY DEF IInv, ProposalsHold
  <2> QED
    BY <2>1, <2>2 DEF AnswerHolds
<1>2. SearchFollowsApproved
  <2> SUFFICES ASSUME NEW d \in Documents, NEW r \in ListKnowledgeRelations(d, {}, FALSE)
               PROVE  /\ r.from \in documents /\ r.to \in documents
                      /\ ~r.disabled
                      /\ \E p \in ListKnowledgeRelationProposals(d, "approved") : Derives(p, r)
    BY DEF SearchFollowsApproved
  <2>1. r \in relations /\ d \in {r.from, r.to} /\ ~r.disabled
    BY DEF ListKnowledgeRelations
  <2>2. PICK p \in proposals : p.status = "approved" /\ Derives(p, r)
    BY <2>1 DEF IInv, RelationsHold
  <2>3. p.from = r.from /\ p.to = r.to
    BY <2>2 DEF Derives
  <2>4. p.from \in documents /\ p.to \in documents
    BY DEF IInv, ProposalsHold
  <2> QED
    BY <2>1, <2>2, <2>3, <2>4 DEF ListKnowledgeRelationProposals
<1> QED
  BY <1>1, <1>2 DEF DecisionsStand, IInv, RelationsHold

\* Nothing is proposed, related or answered at first.
LEMMA InitialInvariant == Init => IInv
BY DEF Init, IInv, ProposalsHold, RelationsHold, ApprovalsHaveRelations, CallsHold, StageHolds,
       AnswerHolds, Idle, NoAnswer

----------------------------------------------------------------------------
\* Calls that leave the rows alone.

\* A call goes on to a stage, or ends with an answer, that agrees with the
\* rows: what is settled stays settled while they stay.
LEMMA CallsKeep ==
  ASSUME IInv, UNCHANGED << proposals, relations, issued >>,
         documents \subseteq documents',
         NEW c \in Clients,
         \/ /\ UNCHANGED answer
            /\ \E stage : doing' = [doing EXCEPT ![c] = stage] /\ StageHolds(stage)
         \/ \E a : Answer(c, a) /\ AnswerHolds(a)
  PROVE  IInv'
<1>1. ProposalsHold'
  BY DEF IInv, ProposalsHold, ProposalShape
<1>2. RelationsHold'
  BY DEF IInv, RelationsHold, RelationShape, Derives, ApprovalsHaveRelations
<1>3. ASSUME NEW d \in Clients PROVE StageHolds(doing[d])'
  <2>1. StageHolds(doing[d])
    BY DEF IInv, CallsHold
  <2>2. CASE doing'[d] = doing[d]
    BY <2>1, <2>2 DEF StageHolds, Settled
  <2>3. CASE doing'[d] # doing[d]
    <3>1. \/ doing'[d] = Idle
          \/ StageHolds(doing'[d])
      BY <2>3 DEF IInv, CallsHold, Answer
    <3> QED
      BY <3>1 DEF StageHolds, Settled, Idle
  <2> QED
    BY <2>2, <2>3
<1>4. ASSUME NEW d \in Clients PROVE AnswerHolds(answer[d])'
  <2>1. AnswerHolds(answer[d])
    BY DEF IInv, CallsHold
  <2>2. CASE answer'[d] = answer[d]
    BY <2>1, <2>2 DEF AnswerHolds, Settled
  <2>3. CASE answer'[d] # answer[d]
    <3>1. AnswerHolds(answer'[d])
      BY <2>3 DEF IInv, CallsHold, Answer
    <3> QED
      BY <3>1 DEF AnswerHolds, Settled
  <2> QED
    BY <2>2, <2>3
<1>5. DOMAIN doing' = Clients /\ DOMAIN answer' = Clients
  BY DEF IInv, CallsHold, Answer
<1> QED
  BY <1>1, <1>2, <1>3, <1>4, <1>5 DEF IInv, CallsHold

----------------------------------------------------------------------------
\* Steps that change the rows.

\* A row that is new, or that was pending, contradicts no answer.
LEMMA CallsSurvive ==
  ASSUME IInv, issued' \in Nat, issued <= issued',
         \A p \in proposals' : p \in proposals \/ ~Settled(p.id),
         UNCHANGED answer,
         \/ UNCHANGED doing
         \/ \E c, stage : doing' = [doing EXCEPT ![c] = stage] /\ StageHolds(stage)'
  PROVE  CallsHold'
<1>1. ASSUME NEW id, Settled(id) PROVE Settled(id)'
  <2>1. id \in 1..issued'
    BY <1>1 DEF Settled, IInv, ProposalsHold
  <2>2. \A p \in proposals' : p.id = id => p.status # "pending"
    BY <1>1 DEF Settled
  <2> QED
    BY <2>1, <2>2 DEF Settled
<1>2. ASSUME NEW d \in Clients PROVE StageHolds(doing[d])'
  <2>1. StageHolds(doing[d])
    BY DEF IInv, CallsHold
  <2>2. CASE doing'[d] = doing[d]
    BY <2>1, <2>2, <1>1 DEF StageHolds
  <2>3. CASE doing'[d] # doing[d]
    BY <2>3 DEF IInv, CallsHold
  <2> QED
    BY <2>2, <2>3
<1>3. ASSUME NEW d \in Clients PROVE AnswerHolds(answer[d])'
  <2>1. AnswerHolds(answer[d])
    BY DEF IInv, CallsHold
  <2> QED
    BY <2>1, <1>1 DEF AnswerHolds
<1>4. DOMAIN doing' = Clients /\ DOMAIN answer' = Clients
  BY DEF IInv, CallsHold
<1> QED
  BY <1>2, <1>3, <1>4 DEF CallsHold

\* No answer and no relation tells of a proposal that is pending.
LEMMA PendingIsUndecided ==
  ASSUME IInv, NEW p \in proposals, p.status = "pending"
  PROVE  /\ ~Settled(p.id)
         /\ \A r \in relations : r.proposal # p.id
<1>1. ~Settled(p.id)
  BY DEF Settled
<1>2. \A r \in relations : r.proposal # p.id
  BY DEF IInv, RelationsHold, ApprovalsHaveRelations
<1> QED
  BY <1>1, <1>2

\* Deciding a pending proposal changes its status and nothing else.
LEMMA StatusIsSet ==
  ASSUME IInv, NEW p \in proposals, NEW status, SetStatus(p, status)
  PROVE  \E q \in proposals' :
           /\ q.id = p.id /\ q.from = p.from /\ q.to = p.to
           /\ q.type = p.type /\ q.effect = p.effect /\ q.direction = p.direction
           /\ q.status = status
           /\ ProposalShape(q)
           /\ proposals' = (proposals \ {p}) \cup {q}
<1> DEFINE q == [p EXCEPT !.status = status]
<1>1. ProposalShape(p)
  BY DEF IInv, ProposalsHold
<1>2. q = [id |-> p.id, from |-> p.from, to |-> p.to, type |-> p.type, effect |-> p.effect,
           direction |-> p.direction, status |-> status]
  BY <1>1 DEF ProposalShape
<1>3. q \in proposals' /\ proposals' = (proposals \ {p}) \cup {q}
  BY DEF SetStatus
<1> HIDE DEF q
<1> QED
  BY <1>2, <1>3 DEF ProposalShape

\* Whatever the status it gets, the rows keep their ends and their ids.
LEMMA ProposalsSurvive ==
  ASSUME IInv, issued' \in Nat, issued <= issued', UNCHANGED documents,
         NEW p \in proposals, NEW status, SetStatus(p, status)
  PROVE  ProposalsHold'
<1>1. PICK q \in proposals' :
        /\ q.id = p.id /\ q.from = p.from /\ q.to = p.to
        /\ ProposalShape(q)
        /\ proposals' = (proposals \ {p}) \cup {q}
  BY StatusIsSet
<1>2. \A x \in proposals' : x = q \/ (x \in proposals /\ x # p)
  BY <1>1
<1>3. ASSUME NEW x \in proposals'
      PROVE  ProposalShape(x) /\ x.id \in 1..issued' /\ x.from \in documents' /\ x.to \in documents'
  BY <1>1, <1>2 DEF IInv, ProposalsHold
<1>4. ASSUME NEW x \in proposals', NEW y \in proposals', x.id = y.id PROVE x = y
  BY <1>1, <1>2, <1>4 DEF IInv, ProposalsHold
<1> QED
  BY <1>3, <1>4 DEF ProposalsHold, ProposalShape

\* Rejecting or cancelling.
LEMMA UpdateKeeps ==
  ASSUME IInv, NEW c \in Clients, NEW id \in 1..issued, NEW status \in {"rejected", "cancelled"},
         UpdateKnowledgeRelationProposalStatus(c, id, status)
  PROVE  IInv'
<1> DEFINE pending == {p \in ProposalsWith(id) : p.status = "pending"}
<1>1. PICK stage :
      /\ stage = [stage |-> "decided", id |-> id, status |-> status, changed |-> pending # {}]
      /\ \/ pending = {} /\ UNCHANGED proposals
         \/ \E p \in pending : SetStatus(p, status)
      /\ doing' = [doing EXCEPT ![c] = stage] /\ UNCHANGED answer
      /\ UNCHANGED << documents, relations, issued, removals >>
  BY DEF UpdateKnowledgeRelationProposalStatus, Goes
<1>2. issued' \in Nat /\ issued <= issued'
  BY <1>1 DEF IInv, ProposalsHold
<1>3. CASE pending = {} /\ UNCHANGED proposals
  <2>1. StageHolds(stage)
    BY <1>1, <1>3 DEF StageHolds, Settled, ProposalsWith
  <2> HIDE DEF pending
  <2> QED
    BY <2>1, <1>1, <1>3, CallsKeep
<1>4. CASE \E p \in pending : SetStatus(p, status)
  <2>1. PICK p \in pending : SetStatus(p, status)
    BY <1>4
  <2>2. p \in proposals /\ p.id = id /\ p.status = "pending"
    BY DEF ProposalsWith
  <2>3. PICK q \in proposals' :
          /\ q.id = p.id /\ q.status = status
          /\ proposals' = (proposals \ {p}) \cup {q}
    BY <2>1, <2>2, StatusIsSet
  <2>4. ~Settled(p.id) /\ \A r \in relations : r.proposal # p.id
    BY <2>2, PendingIsUndecided
  <2>5. \A x \in proposals' : x = q \/ (x \in proposals /\ x # p)
    BY <2>3
  <2>6. \A x \in proposals : x # p => x.id # p.id
    BY <2>2 DEF IInv, ProposalsHold
  <2>7. ProposalsHold'
    BY <1>1, <1>2, <2>1, <2>2, ProposalsSurvive
  <2>8. StageHolds(stage)'
    <3>1. Settled(id)'
      BY <1>1, <2>2, <2>3, <2>5, <2>6 DEF Settled
    <3> QED
      BY <1>1, <3>1 DEF StageHolds
  <2> HIDE DEF pending
  <2>9. CallsHold'
    <3>1. \A x \in proposals' : x \in proposals \/ ~Settled(x.id)
      BY <2>3, <2>4, <2>5
    <3> QED
      BY <1>1, <1>2, <2>8, <3>1, CallsSurvive
  <2>10. RelationsHold'
    <3>1. ASSUME NEW r \in relations
          PROVE  RelationShape(r) /\ \E x \in proposals' : x.status = "approved" /\ Derives(x, r)
      <4>1. RelationShape(r) /\ \E x \in proposals : x.status = "approved" /\ Derives(x, r)
        BY DEF IInv, RelationsHold
      <4>2. PICK x \in proposals : x.status = "approved" /\ Derives(x, r)
        BY <4>1
      <4>3. x \in proposals'
        BY <4>2, <2>2, <2>3
      <4> QED
        BY <4>1, <4>2, <4>3
    <3>2. ASSUME NEW x \in proposals'
          PROVE  x.status = "approved" <=> \E r \in relations : r.proposal = x.id
      BY <2>3, <2>4, <2>5 DEF IInv, RelationsHold, ApprovalsHaveRelations
    <3>3. \A r, s \in relations : r.proposal = s.proposal => r = s
      BY DEF IInv, RelationsHold, ApprovalsHaveRelations
    <3>4. relations' = relations
      BY <1>1
    <3> QED
      BY <3>1, <3>2, <3>3, <3>4 DEF RelationsHold, ApprovalsHaveRelations, RelationShape, Derives
  <2> QED
    BY <2>7, <2>9, <2>10 DEF IInv
<1> QED
  BY <1>1, <1>3, <1>4

\* Approving.
LEMMA ApproveKeeps ==
  ASSUME IInv, NEW c \in Clients, NEW id \in 1..issued, ApproveKnowledgeRelationProposal(c, id)
  PROVE  IInv'
<1>1. UNCHANGED << documents, removals >>
  BY DEF ApproveKnowledgeRelationProposal
<1>2. CASE /\ ProposalsWith(id) = {}
           /\ Answer(c, NotFound)
           /\ UNCHANGED << proposals, relations, issued >>
  <2>1. AnswerHolds(NotFound)
    BY DEF AnswerHolds, NotFound
  <2> QED
    BY <1>1, <1>2, <2>1, CallsKeep
<1>3. CASE \E p \in ProposalsWith(id) :
             /\ p.status # "pending"
             /\ Answer(c, Conflict(p.id, p.status))
             /\ UNCHANGED << proposals, relations, issued >>
  <2>1. PICK p \in ProposalsWith(id) :
          /\ p.status # "pending"
          /\ Answer(c, Conflict(p.id, p.status))
          /\ UNCHANGED << proposals, relations, issued >>
    BY <1>3
  <2>2. p \in proposals
    BY DEF ProposalsWith
  <2>3. AnswerHolds(Conflict(p.id, p.status))
    BY <2>1, <2>2 DEF AnswerHolds, Conflict, Settled, IInv, ProposalsHold
  <2> QED
    BY <1>1, <2>1, <2>3, CallsKeep
<1>4. CASE \E p \in ProposalsWith(id) :
             /\ p.status = "pending"
             /\ issued' = issued + 1
             /\ SetStatus(p, "approved")
             /\ relations' = relations \cup {RelationFrom(p, issued')}
             /\ Goes(c, [stage |-> "approved", id |-> issued'])
  <2>1. PICK p \in ProposalsWith(id) :
          /\ p.status = "pending"
          /\ issued' = issued + 1
          /\ SetStatus(p, "approved")
          /\ relations' = relations \cup {RelationFrom(p, issued')}
          /\ Goes(c, [stage |-> "approved", id |-> issued'])
    BY <1>4
  <2>2. p \in proposals
    BY DEF ProposalsWith
  <2>3. issued' \in Nat /\ issued <= issued'
    BY <2>1 DEF IInv, ProposalsHold
  <2>4. PICK q \in proposals' :
          /\ q.id = p.id /\ q.from = p.from /\ q.to = p.to
          /\ q.type = p.type /\ q.effect = p.effect /\ q.direction = p.direction
          /\ q.status = "approved"
          /\ proposals' = (proposals \ {p}) \cup {q}
    BY <2>1, <2>2, StatusIsSet
  <2>5. ~Settled(p.id) /\ \A r \in relations : r.proposal # p.id
    BY <2>1, <2>2, PendingIsUndecided
  <2>6. \A x \in proposals' : x = q \/ (x \in proposals /\ x # p)
    BY <2>4
  <2>7. \A x \in proposals : x # p => x.id # p.id
    BY <2>2 DEF IInv, ProposalsHold
  <2>8. ProposalsHold'
    BY <1>1, <2>1, <2>2, <2>3, ProposalsSurvive
  <2>9. CallsHold'
    <3>1. \A x \in proposals' : x \in proposals \/ ~Settled(x.id)
      BY <2>4, <2>5, <2>6
    <3>2. PICK stage : /\ stage = [stage |-> "approved", id |-> issued']
                       /\ doing' = [doing EXCEPT ![c] = stage] /\ UNCHANGED answer
      BY <2>1 DEF Goes
    <3>3. StageHolds(stage)'
      BY <3>2 DEF StageHolds
    <3> QED
      BY <2>3, <3>1, <3>2, <3>3, CallsSurvive
  <2>10. RelationsHold'
    <3>1. PICK n : /\ n = RelationFrom(p, issued')
                   /\ relations' = relations \cup {n}
      BY <2>1
    <3>2. RelationShape(n) /\ n.proposal = p.id /\ Derives(q, n)
      BY <2>4, <3>1 DEF RelationFrom, RelationShape, Derives
    <3>3. ASSUME NEW r \in relations
          PROVE  RelationShape(r) /\ \E x \in proposals' : x.status = "approved" /\ Derives(x, r)
      <4>1. RelationShape(r) /\ \E x \in proposals : x.status = "approved" /\ Derives(x, r)
        BY DEF IInv, RelationsHold
      <4>2. PICK x \in proposals : x.status = "approved" /\ Derives(x, r)
        BY <4>1
      <4>3. x \in proposals'
        BY <4>2, <2>1, <2>4
      <4> QED
        BY <4>1, <4>2, <4>3
    <3>4. ASSUME NEW x \in proposals'
          PROVE  x.status = "approved" <=> \E r \in relations' : r.proposal = x.id
      <4>1. CASE x = q
        BY <4>1, <2>4, <3>1, <3>2
      <4>2. CASE x \in proposals /\ x # p
        <5>1. x.id # p.id
          BY <4>2, <2>7
        <5> QED
          BY <4>2, <5>1, <3>1, <3>2 DEF IInv, RelationsHold, ApprovalsHaveRelations
      <4> QED
        BY <4>1, <4>2, <2>6
    <3>5. \A r, s \in relations' : r.proposal = s.proposal => r = s
      BY <2>5, <3>1, <3>2 DEF IInv, RelationsHold, ApprovalsHaveRelations
    <3> QED
      BY <2>4, <3>1, <3>2, <3>3, <3>4, <3>5
      DEF RelationsHold, ApprovalsHaveRelations, RelationShape, Derives
  <2> QED
    BY <2>8, <2>9, <2>10 DEF IInv
<1> QED
  BY <1>2, <1>3, <1>4 DEF ApproveKnowledgeRelationProposal

\* Proposing.
LEMMA InsertKeeps ==
  ASSUME IInv, NEW c \in Clients, InsertProposal(c)
  PROVE  IInv'
<1> DEFINE input == doing[c].input
<1>1. UNCHANGED << documents, relations, removals >>
  BY DEF InsertProposal
<1>2. CASE {input.from, input.to} \subseteq documents
  <2>1. PICK p : /\ p = Proposal(input, issued + 1)
                 /\ proposals' = proposals \cup {p}
    BY <1>2 DEF InsertProposal
  <2>2. issued' = issued + 1 /\ Goes(c, [stage |-> "created", id |-> issued'])
    BY <1>2 DEF InsertProposal
  <2>3. /\ p.id = issued + 1 /\ p.status = "pending" /\ ProposalShape(p)
        /\ p.from \in documents /\ p.to \in documents
    BY <1>2, <2>1 DEF Proposal, ProposalShape
  <2>4. issued \in Nat /\ issued' \in Nat /\ issued <= issued'
    BY <2>2 DEF IInv, ProposalsHold
  <2> HIDE DEF input
  <2>5. \A x \in proposals : x.id \in 1..issued
    BY DEF IInv, ProposalsHold
  <2>6. ProposalsHold'
    <3>1. ASSUME NEW x \in proposals'
          PROVE  /\ ProposalShape(x) /\ x.id \in 1..issued'
                 /\ x.from \in documents' /\ x.to \in documents'
      <4>1. CASE x = p
        BY <4>1, <1>1, <2>2, <2>3, <2>4
      <4>2. CASE x \in proposals
        BY <4>2, <1>1, <2>2, <2>4 DEF IInv, ProposalsHold
      <4> QED
        BY <4>1, <4>2, <2>1
    <3>2. ASSUME NEW x \in proposals', NEW y \in proposals', x.id = y.id PROVE x = y
      BY <3>2, <2>1, <2>3, <2>4, <2>5 DEF IInv, ProposalsHold
    <3> QED
      BY <2>4, <3>1, <3>2 DEF ProposalsHold, ProposalShape
  <2>7. CallsHold'
    <3>1. \A x \in proposals' : x \in proposals \/ ~Settled(x.id)
      BY <2>1, <2>3, <2>4 DEF Settled
    <3>2. PICK stage : /\ stage = [stage |-> "created", id |-> issued']
                       /\ doing' = [doing EXCEPT ![c] = stage] /\ UNCHANGED answer
      BY <2>2 DEF Goes
    <3>3. StageHolds(stage)'
      BY <3>2 DEF StageHolds
    <3> QED
      BY <2>4, <3>1, <3>2, <3>3, CallsSurvive
  <2>8. RelationsHold'
    <3>1. \A r \in relations : r.proposal \in 1..issued
      BY <2>5 DEF IInv, RelationsHold, Derives
    <3>2. ASSUME NEW x \in proposals'
          PROVE  x.status = "approved" <=> \E r \in relations : r.proposal = x.id
      <4>1. CASE x = p
        BY <4>1, <2>3, <2>4, <3>1
      <4>2. CASE x \in proposals
        BY <4>2 DEF IInv, RelationsHold, ApprovalsHaveRelations
      <4> QED
        BY <4>1, <4>2, <2>1
    <3>3. relations' = relations /\ proposals \subseteq proposals'
      BY <1>1, <2>1
    <3> QED
      BY <3>2, <3>3 DEF IInv, RelationsHold, ApprovalsHaveRelations, RelationShape, Derives
  <2> QED
    BY <2>6, <2>7, <2>8 DEF IInv
<1>3. CASE ~({input.from, input.to} \subseteq documents)
  <2>1. Answer(c, BadRequest) /\ UNCHANGED << proposals, issued >>
    BY <1>3 DEF InsertProposal
  <2>2. AnswerHolds(BadRequest)
    BY DEF AnswerHolds, BadRequest
  <2> QED
    BY <1>1, <2>1, <2>2, CallsKeep
<1> QED
  BY <1>2, <1>3

\* Disabling and enabling.
LEMMA SetKeeps ==
  ASSUME IInv, NEW c \in Clients, NEW id \in 1..issued, NEW disabled \in BOOLEAN,
         SetKnowledgeRelation(c, id, disabled)
  PROVE  IInv'
<1>1. PICK stage :
        /\ stage = [stage |-> "set", id |-> id]
        /\ doing' = [doing EXCEPT ![c] = stage] /\ UNCHANGED answer
        /\ UNCHANGED << documents, proposals, issued, removals >>
        /\ UNCHANGED relations \/ \E r \in RelationsWith(id) : SetDisabled(r, disabled)
  BY DEF SetKnowledgeRelation, Goes
<1>2. ProposalsHold'
  BY <1>1 DEF IInv, ProposalsHold, ProposalShape
<1>3. CallsHold'
  <2>1. StageHolds(stage)'
    BY <1>1 DEF StageHolds
  <2>2. issued' \in Nat /\ issued <= issued'
    BY <1>1 DEF IInv, ProposalsHold
  <2> QED
    BY <1>1, <2>1, <2>2, CallsSurvive
<1>4. RelationsHold'
  <2>1. CASE UNCHANGED relations
    BY <1>1, <2>1 DEF IInv, RelationsHold, ApprovalsHaveRelations, RelationShape, Derives
  <2>2. CASE \E r \in RelationsWith(id) : SetDisabled(r, disabled)
    <3>1. PICK r \in relations : SetDisabled(r, disabled)
      BY <2>2 DEF RelationsWith
    <3>2. PICK s : /\ s = [r EXCEPT !.disabled = disabled]
                   /\ relations' = (relations \ {r}) \cup {s}
      BY <3>1 DEF SetDisabled
    <3>3. RelationShape(r)
      BY DEF IInv, RelationsHold
    <3>4. s = [id |-> r.id, from |-> r.from, to |-> r.to, type |-> r.type, effect |-> r.effect,
               weight |-> r.weight, direction |-> r.direction, proposal |-> r.proposal,
               disabled |-> disabled]
      BY <3>2, <3>3 DEF RelationShape
    <3>5. RelationShape(s) /\ s.proposal = r.proposal
      BY <3>4 DEF RelationShape
    <3>6. \A p \in proposals : Derives(p, r) => Derives(p, s)
      BY <3>4 DEF Derives
    <3>7. \A x \in relations' : x = s \/ (x \in relations /\ x # r)
      BY <3>2
    <3>8. ASSUME NEW x \in relations'
          PROVE  RelationShape(x) /\ \E p \in proposals : p.status = "approved" /\ Derives(p, x)
      BY <3>5, <3>6, <3>7 DEF IInv, RelationsHold
    <3>9. ASSUME NEW p \in proposals
          PROVE  p.status = "approved" <=> \E x \in relations' : x.proposal = p.id
      <4>1. p.status = "approved" <=> \E x \in relations : x.proposal = p.id
        BY DEF IInv, RelationsHold, ApprovalsHaveRelations
      <4> QED
        BY <4>1, <3>2, <3>5, <3>7
    <3>10. \A x, y \in relations' : x.proposal = y.proposal => x = y
      BY <3>5, <3>7 DEF IInv, RelationsHold, ApprovalsHaveRelations
    <3> QED
      BY <1>1, <3>8, <3>9, <3>10 DEF RelationsHold, ApprovalsHaveRelations, RelationShape, Derives
  <2> QED
    BY <1>1, <2>1, <2>2
<1> QED
  BY <1>2, <1>3, <1>4 DEF IInv

\* What goes with a document are a proposal and its relation together.
LEMMA RemoveKeeps ==
  ASSUME IInv, NEW d \in Documents, RemoveDocument(d)
  PROVE  IInv'
<1>1. /\ documents' = documents \ {d}
      /\ proposals' = {p \in proposals : d \notin {p.from, p.to}}
      /\ relations' = {r \in relations : d \notin {r.from, r.to}}
      /\ UNCHANGED << doing, answer, issued, calls >>
  BY DEF RemoveDocument
<1>2. ProposalsHold'
  BY <1>1 DEF IInv, ProposalsHold, ProposalShape
<1>3. CallsHold'
  <2>1. issued' \in Nat /\ issued <= issued'
    BY <1>1 DEF IInv, ProposalsHold
  <2> QED
    BY <1>1, <2>1, CallsSurvive
<1>4. RelationsHold'
  <2>1. ASSUME NEW p \in proposals, NEW r \in relations, r.proposal = p.id
        PROVE  p.status = "approved" /\ Derives(p, r)
    <3>1. PICK q \in proposals : q.status = "approved" /\ Derives(q, r)
      BY DEF IInv, RelationsHold
    <3>2. q = p
      BY <2>1, <3>1 DEF Derives, IInv, ProposalsHold
    <3> QED
      BY <3>1, <3>2
  <2>2. ASSUME NEW p \in proposals, NEW r \in relations, r.proposal = p.id
        PROVE  p \in proposals' <=> r \in relations'
    <3>1. r.from = p.from /\ r.to = p.to
      BY <2>1, <2>2 DEF Derives
    <3> QED
      BY <1>1, <3>1
  <2>3. ASSUME NEW r \in relations'
        PROVE  RelationShape(r) /\ \E p \in proposals' : p.status = "approved" /\ Derives(p, r)
    <3>1. r \in relations
      BY <1>1
    <3>2. RelationShape(r) /\ \E p \in proposals : p.status = "approved" /\ Derives(p, r)
      BY <3>1 DEF IInv, RelationsHold
    <3>3. PICK p \in proposals : p.status = "approved" /\ Derives(p, r)
      BY <3>2
    <3>4. r.proposal = p.id
      BY <3>3 DEF Derives
    <3> QED
      BY <2>2, <3>1, <3>2, <3>3, <3>4
  <2>4. ASSUME NEW p \in proposals'
        PROVE  p.status = "approved" <=> \E r \in relations' : r.proposal = p.id
    <3>1. p \in proposals
      BY <1>1
    <3>2. p.status = "approved" <=> \E r \in relations : r.proposal = p.id
      BY <3>1 DEF IInv, RelationsHold, ApprovalsHaveRelations
    <3>3. relations' \subseteq relations
      BY <1>1
    <3> QED
      BY <2>2, <3>1, <3>2, <3>3
  <2>5. \A r, s \in relations' : r.proposal = s.proposal => r = s
    BY <1>1 DEF IInv, RelationsHold, ApprovalsHaveRelations
  <2> QED
    BY <2>3, <2>4, <2>5 DEF RelationsHold, ApprovalsHaveRelations, RelationShape, Derives
<1> QED
  BY <1>2, <1>3, <1>4 DEF IInv

\* Calls that end, or go on, with what they read.
LEMMA ReadsKeep ==
  ASSUME IInv, NEW c \in Clients,
         \/ \E input \in Inputs : Propose(c, input)
         \/ EnsureDocumentsExist(c)
         \/ ReadCreated(c)
         \/ ReadDecided(c)
         \/ ReadApproved(c)
         \/ Locked(c)
         \/ GetKnowledgeRelation(c)
  PROVE  IInv'
<1>1. UNCHANGED rows
  BY DEF Propose, EnsureDocumentsExist, ReadCreated, ReadDecided, ReadApproved, Locked,
         GetKnowledgeRelation
<1>2. UNCHANGED << proposals, relations, issued >> /\ documents \subseteq documents'
  BY <1>1 DEF rows
<1>3. AnswerHolds(BadRequest) /\ AnswerHolds(NotFound)
  BY DEF AnswerHolds, BadRequest, NotFound
<1>4. ASSUME NEW input \in Inputs, Propose(c, input) PROVE IInv'
  <2>1. CASE Goes(c, [stage |-> "check", input |-> Normalized(input)])
    <3>1. StageHolds([stage |-> "check", input |-> Normalized(input)])
      BY DEF StageHolds
    <3> QED
      BY <1>2, <2>1, <3>1, CallsKeep DEF Goes
  <2>2. CASE Answer(c, BadRequest)
    BY <1>2, <1>3, <2>2, CallsKeep
  <2> QED
    BY <1>4, <2>1, <2>2 DEF Propose
<1>5. CASE EnsureDocumentsExist(c)
  <2>1. CASE doing[c].stage = "check" /\ Goes(c, [doing[c] EXCEPT !.stage = "insert"])
    <3>1. PICK stage : stage = [doing[c] EXCEPT !.stage = "insert"]
      OBVIOUS
    <3>2. stage.stage # "decided"
      BY <3>1, <2>1
    <3>3. StageHolds(stage)
      BY <3>2 DEF StageHolds
    <3> QED
      BY <1>2, <2>1, <3>1, <3>3, CallsKeep DEF Goes
  <2>2. CASE Answer(c, BadRequest)
    BY <1>2, <1>3, <2>2, CallsKeep
  <2> QED
    BY <1>5, <2>1, <2>2 DEF EnsureDocumentsExist, At
<1>6. CASE ReadCreated(c)
  <2>1. CASE Answer(c, BadRequest)
    BY <1>2, <1>3, <2>1, CallsKeep
  <2>2. ASSUME NEW p, Answer(c, [code |-> 201, proposal |-> p.id, status |-> p.status])
        PROVE  IInv'
    <3>1. AnswerHolds([code |-> 201, proposal |-> p.id, status |-> p.status])
      BY DEF AnswerHolds
    <3> QED
      BY <1>2, <2>2, <3>1, CallsKeep
  <2> QED
    BY <1>6, <2>1, <2>2 DEF ReadCreated
<1>7. CASE ReadDecided(c)
  <2>1. StageHolds(doing[c]) /\ doing[c].stage = "decided"
    BY <1>7 DEF ReadDecided, At, IInv, CallsHold
  <2>2. CASE Answer(c, NotFound)
    BY <1>2, <1>3, <2>2, CallsKeep
  <2>3. CASE \E p \in ProposalsWith(doing[c].id) :
               Answer(c, IF doing[c].changed THEN Decided(p.id, p.status)
                         ELSE Conflict(p.id, p.status))
    <3>1. PICK p \in ProposalsWith(doing[c].id) :
            Answer(c, IF doing[c].changed THEN Decided(p.id, p.status)
                      ELSE Conflict(p.id, p.status))
      BY <2>3
    <3>2. PICK a : Answer(c, a) /\ a \in {Decided(p.id, p.status), Conflict(p.id, p.status)}
      BY <3>1
    <3>3. p \in proposals /\ p.id = doing[c].id
      BY DEF ProposalsWith
    <3>4. Settled(p.id)
      BY <2>1, <3>3 DEF StageHolds
    <3>5. a.proposal = p.id /\ a.status = p.status
      BY <3>2 DEF Decided, Conflict
    <3>6. AnswerHolds(a)
      BY <3>3, <3>4, <3>5 DEF AnswerHolds, IInv, ProposalsHold
    <3> QED
      BY <1>2, <3>2, <3>6, CallsKeep
  <2> QED
    BY <1>7, <2>2, <2>3 DEF ReadDecided
<1>8. CASE ReadApproved(c)
  <2>1. CASE Answer(c, NotFound)
    BY <1>2, <1>3, <2>1, CallsKeep
  <2>2. CASE \E r \in RelationsWith(doing[c].id) : Answer(c, Decided(r.proposal, "approved"))
    <3>1. PICK r \in relations : Answer(c, Decided(r.proposal, "approved"))
      BY <2>2 DEF RelationsWith
    <3>2. PICK p \in proposals : p.status = "approved" /\ p.id = r.proposal
      BY DEF IInv, RelationsHold, Derives
    <3>3. AnswerHolds(Decided(r.proposal, "approved"))
      BY <3>2 DEF AnswerHolds, Decided, Settled, IInv, ProposalsHold
    <3> QED
      BY <1>2, <3>1, <3>3, CallsKeep
  <2> QED
    BY <1>8, <2>1, <2>2 DEF ReadApproved
<1>9. CASE Locked(c)
  <2>1. AnswerHolds(Conflict(0, "locked"))
    BY DEF AnswerHolds, Conflict
  <2> QED
    BY <1>2, <1>9, <2>1, CallsKeep DEF Locked
<1>10. CASE GetKnowledgeRelation(c)
  <2>1. CASE Answer(c, NotFound)
    BY <1>2, <1>3, <2>1, CallsKeep
  <2>2. CASE \E r \in RelationsWith(doing[c].id) : Answer(c, Switched(r))
    <3>1. PICK r : Answer(c, Switched(r))
      BY <2>2
    <3>2. AnswerHolds(Switched(r))
      BY DEF AnswerHolds, Switched
    <3> QED
      BY <1>2, <3>1, <3>2, CallsKeep
  <2> QED
    BY <1>10, <2>1, <2>2 DEF GetKnowledgeRelation
<1> QED
  BY <1>4, <1>5, <1>6, <1>7, <1>8, <1>9, <1>10

----------------------------------------------------------------------------
\* All steps.

\* One step for each action of a client, the documents that come and go, and
\* the steps that change nothing.
LEMMA StepsKeep == IInv /\ [Next]_vars => IInv'
<1> SUFFICES ASSUME IInv, [Next]_vars PROVE IInv'
  OBVIOUS
<1>1. ASSUME NEW c \in Clients, Act(c) PROVE IInv'
  <2>1. ASSUME NEW id \in 1..issued,
               \/ ApproveKnowledgeRelationProposal(c, id)
               \/ \E status \in {"rejected", "cancelled"} :
                    UpdateKnowledgeRelationProposalStatus(c, id, status)
               \/ DisableKnowledgeRelation(c, id)
               \/ ReenableKnowledgeRelation(c, id)
        PROVE  IInv'
    BY <2>1, ApproveKeeps, UpdateKeeps, SetKeeps
    DEF DisableKnowledgeRelation, ReenableKnowledgeRelation
  <2> QED
    BY <1>1, <2>1, InsertKeeps, ReadsKeep DEF Act
<1>2. ASSUME NEW d \in Documents, StoreDocument(d) PROVE IInv'
  <2>1. /\ UNCHANGED << proposals, relations, doing, answer, issued >>
        /\ documents \subseteq documents'
    BY <1>2 DEF StoreDocument
  <2> QED
    BY <2>1 DEF IInv, ProposalsHold, ProposalShape, RelationsHold, RelationShape,
                ApprovalsHaveRelations, Derives, CallsHold, StageHolds, AnswerHolds, Settled
<1>3. CASE UNCHANGED vars
  BY <1>3 DEF vars, IInv, ProposalsHold, ProposalShape, RelationsHold, RelationShape,
              ApprovalsHaveRelations, Derives, CallsHold, StageHolds, AnswerHolds, Settled
<1> QED
  BY <1>1, <1>2, <1>3, RemoveKeeps DEF Next

\* A proposal is decided once: the answers reviewers got stay true, and what
\* a search follows are the relations that were approved between documents
\* that are stored (updateKnowledgeRelationProposalStatus,
\* ApproveKnowledgeRelationProposal, ListKnowledgeRelations).
THEOREM DecisionsAlwaysStand == Spec => []DecisionsStand
<1>1. Spec => []IInv
  BY InitialInvariant, StepsKeep, PTL DEF Spec
<1> QED
  BY <1>1, InvariantSuffices, PTL

=============================================================================
