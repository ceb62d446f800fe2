-------------------------- MODULE KnowledgeRelations --------------------------
(***************************************************************************)
(* Relations between documents: an agent or a user proposes one, reviewers *)
(* approve, reject or cancel it, and an approved one can be disabled and   *)
(* enabled again (sqlite.go, the handlers in server.go and the tools in    *)
(* mcp/server.go).  Meanwhile syncs remove documents, and proposals and    *)
(* relations with them.                                                    *)
(*                                                                         *)
(* A call is several statements: a client is in one of its stages and      *)
(* anything may happen between two of them.                                *)
(***************************************************************************)
EXTENDS Integers

CONSTANTS
  Documents,
  Clients,
  Inputs,                 \* [from, to, type, effect, direction] a client may send
  MaxCalls, MaxRemovals   \* bounds on the calls and on the documents that go

VARIABLES
  documents,              \* the stored documents
  proposals, relations,   \* sets of rows
  doing,                  \* client -> what it is doing, its stage
  answer,                 \* client -> the answer to its last call
  issued,                 \* how many of the random ids have been taken
  calls, removals
vars == << documents, proposals, relations, doing, answer, issued, calls, removals >>
rows == << documents, proposals, relations, issued, removals >>

Idle == [stage |-> "idle"]
NoAnswer == [code |-> 0]

\* Of the rows with an id there is one, or none any more.
ProposalsWith(id) == {p \in proposals : p.id = id}
RelationsWith(id) == {r \in relations : r.id = id}

Init ==
  /\ documents = Documents
  /\ proposals = {}
  /\ relations = {}
  /\ doing = [c \in Clients |-> Idle]
  /\ answer = [c \in Clients |-> NoAnswer]
  /\ issued = 0
  /\ calls = 0
  /\ removals = 0

----------------------------------------------------------------------------
\* Every handler ends with an answer.

Answer(c, a) ==
  /\ answer' = [answer EXCEPT ![c] = a]
  /\ doing' = [doing EXCEPT ![c] = Idle]

Goes(c, stage) ==
  /\ doing' = [doing EXCEPT ![c] = stage]
  /\ UNCHANGED answer

Calls(c) ==
  /\ doing[c] = Idle
  /\ calls < MaxCalls
  /\ calls' = calls + 1

At(c, stage) == doing[c].stage = stage /\ UNCHANGED calls

NotFound == [code |-> 404]
BadRequest == [code |-> 400]
Conflict(id, status) == [code |-> 409, proposal |-> id, status |-> status]
Decided(id, status) == [code |-> 200, proposal |-> id, status |-> status]
Switched(row) == [code |-> 200, proposal |-> 0, relation |-> row.id, disabled |-> row.disabled]

----------------------------------------------------------------------------
\* Proposing

EffectForRelationType(type) ==
  CASE type = "deprecated_by" -> "demote"
    [] type = "should_ignore" -> "ignore"
    [] type = "related_to" -> "boost"
    [] OTHER -> "context_link"

Normalized(input) ==
  [input EXCEPT !.direction = IF @ = "" THEN "directed" ELSE @,
                !.effect = IF @ = "" THEN EffectForRelationType(input.type) ELSE @]

WellFormed(input) ==
  /\ input.type \in {"related_to", "schema_reference", "deprecated_by", "should_ignore"}
  /\ input.from # input.to
  /\ input.direction \in {"directed", "undirected"}
  /\ input.effect \in {"context_link", "boost", "demote", "ignore"}

Propose(c, input) ==
  /\ Calls(c)
  /\ IF WellFormed(Normalized(input)) THEN Goes(c, [stage |-> "check", input |-> Normalized(input)])
     ELSE Answer(c, BadRequest)
  /\ UNCHANGED rows

EnsureDocumentsExist(c) ==
  /\ At(c, "check")
  /\ IF {doing[c].input.from, doing[c].input.to} \subseteq documents
     THEN Goes(c, [doing[c] EXCEPT !.stage = "insert"])
     ELSE Answer(c, BadRequest)
  /\ UNCHANGED rows

Proposal(input, id) ==
  [id |-> id, from |-> input.from, to |-> input.to, type |-> input.type, effect |-> input.effect,
   direction |-> input.direction, status |-> "pending"]

\* The foreign keys hold what the check found.
InsertProposal(c) ==
  /\ At(c, "insert")
  /\ LET input == doing[c].input
     IN IF {input.from, input.to} \subseteq documents
        THEN /\ issued' = issued + 1
             /\ proposals' = proposals \cup {Proposal(input, issued')}
             /\ Goes(c, [stage |-> "created", id |-> issued'])
        ELSE Answer(c, BadRequest) /\ UNCHANGED << proposals, issued >>
  /\ UNCHANGED << documents, relations, removals >>

ReadCreated(c) ==
  /\ At(c, "created")
  /\ \/ \E p \in ProposalsWith(doing[c].id) : Answer(c, [code |-> 201, proposal |-> p.id, status |-> p.status])
     \/ ProposalsWith(doing[c].id) = {} /\ Answer(c, BadRequest)
  /\ UNCHANGED rows

----------------------------------------------------------------------------
\* Deciding

RelationWeightForEffect(effect) ==
  CASE effect = "boost" -> 5 [] effect = "demote" -> -8 [] effect = "ignore" -> -10 [] OTHER -> 10

RelationFrom(p, id) ==
  [id |-> id, from |-> p.from, to |-> p.to, type |-> p.type, effect |-> p.effect,
   weight |-> RelationWeightForEffect(p.effect), direction |-> p.direction, proposal |-> p.id,
   disabled |-> FALSE]

SetStatus(p, status) == proposals' = (proposals \ {p}) \cup {[p EXCEPT !.status = status]}

\* One transaction: the decision and the relation.
ApproveKnowledgeRelationProposal(c, id) ==
  /\ Calls(c)
  /\ \/ /\ ProposalsWith(id) = {}
        /\ Answer(c, NotFound)
        /\ UNCHANGED << proposals, relations, issued >>
     \/ \E p \in ProposalsWith(id) :
          /\ p.status # "pending"
          /\ Answer(c, Conflict(p.id, p.status))
          /\ UNCHANGED << proposals, relations, issued >>
     \/ \E p \in ProposalsWith(id) :
          /\ p.status = "pending"
          /\ issued' = issued + 1
          /\ SetStatus(p, "approved")
          /\ relations' = relations \cup {RelationFrom(p, issued')}
          /\ Goes(c, [stage |-> "approved", id |-> issued'])
  /\ UNCHANGED << documents, removals >>

\* A mutated form: whatever the proposal is, its status is set.
DecideUnguarded(c, id, status) ==
  /\ Calls(c)
  /\ \/ ProposalsWith(id) = {} /\ UNCHANGED proposals
     \/ \E p \in ProposalsWith(id) : SetStatus(p, status)
  /\ Goes(c, [stage |-> "decided", id |-> id, status |-> status, changed |-> ProposalsWith(id) # {}])
  /\ UNCHANGED << documents, relations, issued, removals >>

\* Rejected or cancelled, if it is pending; the row is read after that.
UpdateKnowledgeRelationProposalStatus(c, id, status) ==
  /\ Calls(c)
  /\ LET pending == {p \in ProposalsWith(id) : p.status = "pending"}
     IN /\ \/ pending = {} /\ UNCHANGED proposals
           \/ \E p \in pending : SetStatus(p, status)
        /\ Goes(c, [stage |-> "decided", id |-> id, status |-> status, changed |-> pending # {}])
  /\ UNCHANGED << documents, relations, issued, removals >>

ReadDecided(c) ==
  /\ At(c, "decided")
  /\ \/ ProposalsWith(doing[c].id) = {} /\ Answer(c, NotFound)
     \/ \E p \in ProposalsWith(doing[c].id) :
          Answer(c, IF doing[c].changed THEN Decided(p.id, p.status) ELSE Conflict(p.id, p.status))
  /\ UNCHANGED rows

ReadApproved(c) ==
  /\ At(c, "approved")
  /\ \/ RelationsWith(doing[c].id) = {} /\ Answer(c, NotFound)
     \/ \E r \in RelationsWith(doing[c].id) : Answer(c, Decided(r.proposal, "approved"))
  /\ UNCHANGED rows

\* A locked store is no conflict, but its message reads like one.
Locked(c) ==
  /\ Calls(c)
  /\ Answer(c, Conflict(0, "locked"))
  /\ UNCHANGED rows

----------------------------------------------------------------------------
\* Relations

SetDisabled(r, disabled) == relations' = (relations \ {r}) \cup {[r EXCEPT !.disabled = disabled]}

SetKnowledgeRelation(c, id, disabled) ==
  /\ Calls(c)
  /\ \/ RelationsWith(id) = {} /\ UNCHANGED relations
     \/ \E r \in RelationsWith(id) : SetDisabled(r, disabled)
  /\ Goes(c, [stage |-> "set", id |-> id])
  /\ UNCHANGED << documents, proposals, issued, removals >>

DisableKnowledgeRelation(c, id) == SetKnowledgeRelation(c, id, TRUE)
ReenableKnowledgeRelation(c, id) == SetKnowledgeRelation(c, id, FALSE)

GetKnowledgeRelation(c) ==
  /\ At(c, "set")
  /\ \/ RelationsWith(doing[c].id) = {} /\ Answer(c, NotFound)
     \/ \E r \in RelationsWith(doing[c].id) : Answer(c, Switched(r))
  /\ UNCHANGED rows

\* No more of them than a page holds.
ListKnowledgeRelations(document, types, includeDisabled) ==
  {r \in relations : /\ document \in {r.from, r.to}
                     /\ types # {} => r.type \in types
                     /\ includeDisabled \/ ~r.disabled}

ListKnowledgeRelationProposals(document, status) ==
  {p \in proposals : document \in {p.from, p.to} /\ (status = "all" \/ p.status = status)}

----------------------------------------------------------------------------
\* A document goes, and with it what refers to it; it may come back.

RemoveDocument(d) ==
  /\ d \in documents
  /\ removals < MaxRemovals
  /\ removals' = removals + 1
  /\ documents' = documents \ {d}
  /\ proposals' = {p \in proposals : d \notin {p.from, p.to}}
  /\ relations' = {r \in relations : d \notin {r.from, r.to}}
  /\ UNCHANGED << doing, answer, issued, calls >>

StoreDocument(d) ==
  /\ d \notin documents
  /\ documents' = documents \cup {d}
  /\ UNCHANGED << proposals, relations, doing, answer, issued, calls, removals >>

Act(c) ==
  \/ \E input \in Inputs : Propose(c, input)
  \/ EnsureDocumentsExist(c)
  \/ InsertProposal(c)
  \/ ReadCreated(c)
  \/ \E id \in 1..issued :
       \/ ApproveKnowledgeRelationProposal(c, id)
       \/ \E status \in {"rejected", "cancelled"} : UpdateKnowledgeRelationProposalStatus(c, id, status)
       \/ DisableKnowledgeRelation(c, id)
       \/ ReenableKnowledgeRelation(c, id)
  \/ ReadDecided(c)
  \/ ReadApproved(c)
  \/ Locked(c)
  \/ GetKnowledgeRelation(c)

Next ==
  \/ \E c \in Clients : Act(c)
  \/ \E d \in Documents : RemoveDocument(d) \/ StoreDocument(d)

Spec == Init /\ [][Next]_vars

----------------------------------------------------------------------------
\* The answers that reviewers got stay true as long as the proposal is stored.
AnswersHold ==
  \A c \in Clients, p \in proposals :
    answer[c].code \in {200, 409} /\ answer[c].proposal = p.id => p.status = answer[c].status

\* An approved proposal has one relation and no other has any.
ApprovalsHaveRelations ==
  /\ \A p \in proposals : p.status = "approved" <=> \E r \in relations : r.proposal = p.id
  /\ \A r, s \in relations : r.proposal = s.proposal => r = s

Derives(p, r) ==
  /\ r.proposal = p.id
  /\ r.from = p.from /\ r.to = p.to
  /\ r.type = p.type /\ r.effect = p.effect /\ r.direction = p.direction

\* What a search follows are relations between stored documents that nobody
\* has disabled, as they were approved.
SearchFollowsApproved ==
  \A d \in Documents : \A r \in ListKnowledgeRelations(d, {}, FALSE) :
    /\ r.from \in documents /\ r.to \in documents
    /\ ~r.disabled
    /\ \E p \in ListKnowledgeRelationProposals(d, "approved") : Derives(p, r)

\* A proposal is decided once, whatever several reviewers do at a time and
\* whichever documents go in between (updateKnowledgeRelationProposalStatus,
\* ApproveKnowledgeRelationProposal).
DecisionsStand == AnswersHold /\ ApprovalsHaveRelations /\ SearchFollowsApproved

=============================================================================
