--------------------------- MODULE AccountsProofs ---------------------------
(***************************************************************************)
(* Accounts for any users, admins, token life, keywords, cap and number of *)
(* requests.  What is proved of the two modules it composes is carried     *)
(* over: every step is a step of each or leaves it alone.                  *)
(***************************************************************************)
EXTENDS Accounts, TLAPS

ListProofs == INSTANCE CommentFiltersProofs

\* An admin's call leaves keyword lists alone, and of accounts it does nothing
\* but delete them.
LEMMA AdminStepSplit ==
    ASSUME NEW q \in Calls, AdminStep(q)
    PROVE  /\ UNCHANGED list /\ UNCHANGED entered
           /\ (\E u \in Users : Lease!DeleteUser(u)) \/ UNCHANGED lease
BY DEF AdminStep, LetIn, Dismiss, SuspendUser, UnsuspendUser, BanUser, AdminDeleteUser,
       RecordAction, LoseRecord, lease, list

\* A request for the owner's list leaves everything else alone.
LEMMA FiltersStepSplit ==
    ASSUME NEW q \in Adders, Enter(q) \/ ChangeFilters(q)
    PROVE  /\ UNCHANGED lease /\ UNCHANGED calls /\ UNCHANGED moderation
           /\ [List!Next]_(List!vars)
<1>1. CASE Enter(q) \/ Leave(q)
  BY <1>1 DEF Enter, Leave, ChangeFilters, FirstStatement, list, List!vars, List!Next
<1>2. CASE FirstStatement(q)
  <2>1. List!Next
    BY <1>2 DEF FirstStatement, List!Next
  <2> QED
    BY <1>2, <2>1 DEF FirstStatement, ChangeFilters, Enter
<1>3. CASE List!InsertFilter(q) \/ List!AbandonFilter(q)
  BY <1>3 DEF ChangeFilters, Enter, List!Next
<1> QED
  BY <1>1, <1>2, <1>3 DEF ChangeFilters, Enter

\* A moderated user's keyword list is still a keyword list.
LEMMA ListStep ==
    ASSUME [Next]_vars
    PROVE  [List!Next]_(List!vars)
<1>1. CASE \E q \in Adders : Enter(q) \/ ChangeFilters(q)
  BY <1>1, FiltersStepSplit
<1>2. CASE \E q \in Calls : AdminStep(q)
  BY <1>2, AdminStepSplit DEF list, List!vars
<1>3. CASE LeaseStep \/ UNCHANGED vars
  BY <1>3 DEF LeaseStep, vars, list, List!vars
<1> QED
  BY <1>1, <1>2, <1>3 DEF Next

\* Accounts and tokens are still those of AccessLease.
LEMMA LeaseStepRefines ==
    ASSUME [Next]_vars
    PROVE  [Lease!Next]_(Lease!vars)
<1>1. CASE \E q \in Adders : Enter(q) \/ ChangeFilters(q)
  BY <1>1, FiltersStepSplit DEF lease, Lease!vars
<1>2. CASE \E q \in Calls : AdminStep(q)
  BY <1>2, AdminStepSplit DEF lease, Lease!vars, Lease!Next
<1>3. CASE LeaseStep
  BY <1>3 DEF LeaseStep, Lease!Next
<1>4. CASE UNCHANGED vars
  BY <1>4 DEF vars, lease, Lease!vars
<1> QED
  BY <1>1, <1>2, <1>3, <1>4 DEF Next

\* The keyword list behind the middleware is the list of CommentFilters.
THEOREM ListImplemented == Spec => List!Spec
<1>1. Init => List!Init
  BY DEF Init
<1> QED
  BY <1>1, ListStep, PTL DEF Spec, List!Spec

\* Accounts and tokens behave as in AccessLease, by the steps above.
LEMMA LeaseImplemented == Spec => Lease!Spec
<1>1. Init => Lease!Init
  BY DEF Init
<1> QED
  BY <1>1, LeaseStepRefines, PTL DEF Spec, Lease!Spec

\* The list that CommentFiltersProofs speaks of is the list of Accounts.
LEMMA SameList ==
    /\ List!Spec <=> ListProofs!Spec
    /\ List!TypeOK <=> ListProofs!TypeOK
    /\ OvershootBounded <=> ListProofs!OvershootBounded
    /\ ListedOnce <=> ListProofs!ListedOnce
<1>1. \A S : List!Cardinality(S) = ListProofs!Cardinality(S)
  BY DEF List!Cardinality, ListProofs!Cardinality
<1>2. List!Init <=> ListProofs!Init
  BY DEF List!Init, ListProofs!Init
<1>3. List!Next <=> ListProofs!Next
  BY <1>1 DEF List!Next, ListProofs!Next,
         List!CountFilters, ListProofs!CountFilters,
         List!InsertFilter, ListProofs!InsertFilter,
         List!AbandonFilter, ListProofs!AbandonFilter,
         List!DeleteCommentFilter, ListProofs!DeleteCommentFilter
<1>4. [List!Next]_(List!vars) <=> [ListProofs!Next]_(ListProofs!vars)
  BY <1>3 DEF List!vars, ListProofs!vars
<1>5. List!Spec <=> ListProofs!Spec
  BY <1>2, <1>4, PTL DEF List!Spec, ListProofs!Spec
<1>6. OvershootBounded <=> ListProofs!OvershootBounded
  BY <1>1 DEF OvershootBounded, List!OvershootBounded, ListProofs!OvershootBounded,
         List!Counted, ListProofs!Counted
<1>7. ListedOnce <=> ListProofs!ListedOnce
  BY DEF ListedOnce, List!ListedOnce, ListProofs!ListedOnce
<1>8. List!TypeOK <=> ListProofs!TypeOK
  BY DEF List!TypeOK, ListProofs!TypeOK, List!IsFiniteSet, ListProofs!IsFiniteSet
<1> QED
  BY <1>5, <1>6, <1>7, <1>8

-----------------------------------------------------------------------------
\* The list outgrows its cap by less than the requests that run at a time,
\* also when they outlive their tokens.
THEOREM OvershootInAccounts == Spec => []OvershootBounded
<1>1. ListProofs!Spec => []ListProofs!OvershootBounded
  BY ListProofs!OvershootCorrect, FiltersAssumption DEF ListProofs!IsFiniteSet, IsFiniteSet
<1> QED
  BY <1>1, SameList, ListImplemented, PTL

\* A keyword is listed once.
THEOREM ListedOnceInAccounts == Spec => []ListedOnce
<1>1. ListProofs!Spec => []ListProofs!ListedOnce
  BY ListProofs!ListedOnceCorrect, FiltersAssumption DEF ListProofs!IsFiniteSet, IsFiniteSet
<1> QED
  BY <1>1, SameList, ListImplemented, PTL

ListTypes == List!TypeOK

LEMMA ListTyped == Spec => []ListTypes
<1>1. ListProofs!Spec => []ListProofs!TypeOK
  BY ListProofs!ListTypeCorrect, FiltersAssumption DEF ListProofs!IsFiniteSet, IsFiniteSet
<1>2. ListProofs!TypeOK => ListTypes
  BY SameList DEF ListTypes
<1> QED
  BY <1>1, <1>2, SameList, ListImplemented, PTL

\* What is left of a user's access and the time since the account was closed
\* add up to no more than the life of a token.
LeaseInv == Lease!TypeOK /\ \A u \in Users : access[u] + since[u] <= AccessTTL

LEMMA LeaseStepKept ==
    ASSUME LeaseInv, [Lease!Next]_(Lease!vars)
    PROVE  LeaseInv'
<1> USE AccountsAssumption DEF LeaseInv, Lease!TypeOK
<1>1. ASSUME NEW u \in Users, Lease!Register(u) \/ Lease!DeleteUser(u) \/ Lease!Close(u)
      PROVE  LeaseInv'
  BY <1>1 DEF Lease!Register, Lease!DeleteUser, Lease!Close
<1>2. ASSUME NEW u \in Users, Lease!Grant(u)
      PROVE  LeaseInv'
  <2>1. PICK life \in 1 .. (AccessTTL - since[u]) :
            access' = [access EXCEPT ![u] = Lease!Longer(@, life)]
    BY <1>2 DEF Lease!Grant
  <2>2. /\ Lease!Longer(access[u], life) \in 0 .. AccessTTL
        /\ Lease!Longer(access[u], life) + since[u] <= AccessTTL
    BY <2>1 DEF Lease!Longer
  <2> QED
    BY <1>2, <2>1, <2>2 DEF Lease!Grant
<1>3. CASE Lease!Tick
  <2>1. ASSUME NEW u \in Users
        PROVE  /\ access'[u] \in 0 .. AccessTTL
               /\ since'[u] \in 0 .. AccessTTL
               /\ access'[u] + since'[u] <= AccessTTL
    BY <1>3 DEF Lease!Tick, Lease!Less
  <2> QED
    BY <1>3, <2>1 DEF Lease!Tick
<1>4. CASE UNCHANGED Lease!vars
  BY <1>4 DEF Lease!vars
<1> QED
  BY <1>1, <1>2, <1>3, <1>4 DEF Lease!Next

LEMMA LeaseKept == Lease!Spec => []LeaseInv
<1>1. Lease!Init => LeaseInv
  BY AccountsAssumption DEF Lease!Init, LeaseInv, Lease!TypeOK
<1> QED
  BY <1>1, LeaseStepKept, PTL DEF Lease!Spec

LEMMA LeaseHolds == Spec => []LeaseInv
BY LeaseKept, LeaseImplemented, PTL

ModerationTypes ==
    /\ entered \subseteq Adders
    /\ caller \in [Calls -> Admins \cup {NoUser}]
    /\ auditing \in [Calls -> Users \cup {NoUser}]
    /\ suspended \subseteq Users
    /\ banned \subseteq Users
    /\ trail \subseteq Admins \X Users
    /\ untraced \subseteq Users

\* A record is due only to a call that somebody made.
CallsFit == \A q \in Calls : auditing[q] # NoUser => caller[q] # NoUser

ModerationInv == ModerationTypes /\ CallsFit /\ SuspensionTraceable

LEMMA ModerationInit ==
    Init => ModerationInv
BY DEF Init, ModerationInv, ModerationTypes, CallsFit, SuspensionTraceable

\* Answering a call.
LEMMA DoneFits ==
    ASSUME ModerationTypes, CallsFit, NEW q \in Calls, Done(q)
    PROVE  /\ caller' \in [Calls -> Admins \cup {NoUser}]
           /\ auditing' \in [Calls -> Users \cup {NoUser}]
           /\ CallsFit'
           /\ auditing'[q] = NoUser /\ caller'[q] = NoUser
           /\ \A p \in Calls \ {q} : auditing'[p] = auditing[p] /\ caller'[p] = caller[p]
BY DEF ModerationTypes, CallsFit, Done

LEMMA ModerationStep ==
    ASSUME ModerationInv, [Next]_vars
    PROVE  ModerationInv'
<1> USE AccountsAssumption DEF ModerationInv
<1>1. ASSUME NEW q \in Calls, NEW u \in Users, SuspendUser(q, u)
      PROVE  ModerationInv'
  <2>1. ModerationTypes' /\ CallsFit'
    BY <1>1 DEF SuspendUser, ModerationTypes, CallsFit, Waiting
  <2>2. ASSUME NEW p \in Calls, auditing[p] # NoUser
        PROVE  auditing'[p] = auditing[p]
    BY <1>1, <2>2 DEF SuspendUser, Waiting, ModerationTypes
  <2>3. auditing'[q] = u
    BY <1>1 DEF SuspendUser, ModerationTypes
  <2>4. suspended' = suspended \cup {u} /\ trail' = trail /\ untraced' = untraced
    BY <1>1 DEF SuspendUser
  <2>5. SuspensionTraceable'
    BY <2>2, <2>3, <2>4 DEF SuspensionTraceable, ModerationTypes
  <2> QED
    BY <2>1, <2>5
<1>2. ASSUME NEW q \in Calls, RecordAction(q)
      PROVE  ModerationInv'
  <2>1. /\ auditing[q] \in Users /\ caller[q] \in Admins
        /\ trail' = trail \cup {<<caller[q], auditing[q]>>}
        /\ UNCHANGED <<entered, suspended, banned, untraced>>
    BY <1>2 DEF RecordAction, ModerationTypes, CallsFit
  <2>2. ModerationTypes' /\ CallsFit'
    BY <1>2, <2>1, DoneFits DEF RecordAction, ModerationTypes
  <2>3. \A p \in Calls \ {q} : auditing'[p] = auditing[p]
    BY <1>2, DoneFits DEF RecordAction
  <2>4. SuspensionTraceable'
    BY <2>1, <2>3 DEF SuspensionTraceable, ModerationTypes
  <2> QED
    BY <2>2, <2>4
<1>3. ASSUME NEW q \in Calls, LoseRecord(q)
      PROVE  ModerationInv'
  <2>1. /\ auditing[q] \in Users
        /\ untraced' = untraced \cup {auditing[q]}
        /\ UNCHANGED <<entered, suspended, banned, trail>>
    BY <1>3 DEF LoseRecord, ModerationTypes
  <2>2. ModerationTypes' /\ CallsFit'
    BY <1>3, <2>1, DoneFits DEF LoseRecord, ModerationTypes
  <2>3. \A p \in Calls \ {q} : auditing'[p] = auditing[p]
    BY <1>3, DoneFits DEF LoseRecord
  <2>4. SuspensionTraceable'
    BY <2>1, <2>3 DEF SuspensionTraceable, ModerationTypes
  <2> QED
    BY <2>2, <2>4
<1>4. ASSUME NEW q \in Calls, NEW u \in Users,
             \/ UnsuspendUser(q, u) \/ BanUser(q, u)
             \/ AdminDeleteUser(q, u) \/ Dismiss(q)
      PROVE  ModerationInv'
  <2>1. /\ Done(q) /\ auditing[q] = NoUser
        /\ UNCHANGED <<entered, trail, untraced>>
        /\ suspended' \subseteq suspended
        /\ banned' \subseteq Users
    BY <1>4 DEF UnsuspendUser, BanUser, AdminDeleteUser, Dismiss, Waiting, moderation,
           ModerationTypes
  <2>2. ModerationTypes' /\ CallsFit'
    BY <2>1, DoneFits DEF ModerationTypes
  <2>3. \A p \in Calls \ {q} : auditing'[p] = auditing[p]
    BY <2>1, DoneFits
  <2>4. SuspensionTraceable'
    BY <2>1, <2>3 DEF SuspensionTraceable, ModerationTypes
  <2> QED
    BY <2>2, <2>4
<1>5. ASSUME NEW q \in Calls, NEW a \in Admins, LetIn(q, a)
      PROVE  ModerationInv'
  BY <1>5 DEF LetIn, moderation, ModerationTypes, CallsFit, SuspensionTraceable
<1>6. ASSUME NEW q \in Adders, Enter(q) \/ ChangeFilters(q)
      PROVE  ModerationInv'
  <2>1. UNCHANGED calls /\ UNCHANGED moderation
    BY <1>6, FiltersStepSplit
  <2>2. entered' \subseteq Adders
    BY <1>6 DEF Enter, ChangeFilters, FirstStatement, Leave, ModerationTypes
  <2> QED
    BY <2>1, <2>2 DEF calls, moderation, ModerationTypes, CallsFit, SuspensionTraceable
<1>7. CASE LeaseStep \/ UNCHANGED vars
  BY <1>7 DEF LeaseStep, vars, calls, moderation, ModerationTypes, CallsFit, SuspensionTraceable
<1>8. ASSUME NEW q \in Calls, AdminStep(q)
      PROVE  ModerationInv'
  BY <1>1, <1>2, <1>3, <1>4, <1>5, <1>8 DEF AdminStep
<1> QED
  BY <1>6, <1>7, <1>8 DEF Next

LEMMA ModerationHolds == Spec => []ModerationInv
BY ModerationInit, ModerationStep, PTL DEF Spec

\* A request that was let in has not counted yet: what uses up the one does
\* not touch the other.
Apart == entered \cap List!Counted = {}

LEMMA ApartStep ==
    ASSUME ListTypes, Apart, [Next]_vars
    PROVE  Apart'
<1> USE FiltersAssumption DEF Apart
<1>1. ASSUME NEW q \in Adders, Enter(q)
      PROVE  Apart'
  BY <1>1 DEF Enter, Working, list, List!Counted
<1>2. ASSUME NEW q \in Adders, FirstStatement(q)
      PROVE  Apart'
  <2>1. entered' = entered \ {q} /\ List!Counted' \subseteq List!Counted \cup {q}
    BY <1>2 DEF FirstStatement, ListTypes, List!TypeOK, List!CountFilters,
           List!DeleteCommentFilter, List!Counted
  <2> QED
    BY <2>1
<1>3. ASSUME NEW q \in Adders, Leave(q)
      PROVE  Apart'
  BY <1>3 DEF Leave, list, List!Counted
<1>4. ASSUME NEW q \in Adders, List!InsertFilter(q) \/ List!AbandonFilter(q), UNCHANGED entered
      PROVE  Apart'
  BY <1>4 DEF ListTypes, List!TypeOK, List!InsertFilter, List!AbandonFilter, List!Counted
<1>5. CASE \E q \in Calls : AdminStep(q)
  BY <1>5, AdminStepSplit DEF list, List!Counted
<1>6. CASE LeaseStep \/ UNCHANGED vars
  BY <1>6 DEF LeaseStep, vars, list, List!Counted
<1> QED
  BY <1>1, <1>2, <1>3, <1>4, <1>5, <1>6 DEF Next, ChangeFilters

LEMMA ApartHolds == Spec => []Apart
<1>1. Init => Apart
  BY DEF Init, Apart
<1> QED
  BY <1>1, ApartStep, ListTyped, PTL DEF Spec

\* Type correctness of the composition.
THEOREM AccountsTypeCorrect == Spec => []TypeOK
<1>1. ListTypes /\ LeaseInv /\ ModerationInv => TypeOK
  BY DEF ListTypes, LeaseInv, ModerationInv, ModerationTypes, TypeOK
<1> QED
  BY <1>1, ListTyped, LeaseHolds, ModerationHolds, PTL

\* A suspension leaves its record unless the INSERT was lost, for any number
\* of admins at work on the same users.
THEOREM SuspensionTraceableCorrect == Spec => []SuspensionTraceable
<1>1. ModerationInv => SuspensionTraceable
  BY DEF ModerationInv
<1> QED
  BY <1>1, ModerationHolds, PTL

-----------------------------------------------------------------------------
\* Nothing is left of the access of an account that was deleted for the life
\* of a token.
LEMMA NotLetIn ==
    ASSUME LeaseInv, NEW u \in Users, since[u] >= AccessTTL
    PROVE  ~AuthMiddleware(u)
BY AccountsAssumption DEF LeaseInv, Lease!TypeOK, AuthMiddleware

\* What an owner's request does to the list when none is let in: it is
\* used up before or while the list changes.
LEMMA ListDrains ==
    ASSUME ListTypes, Apart, NEW q \in Adders, ChangeFilters(q)
    PROVE  /\ entered' \subseteq entered
           /\ Working' \subseteq Working
           /\ filters' # filters => Working' # Working
<1> USE FiltersAssumption
<1>1. CASE Leave(q)
  BY <1>1 DEF Leave, list, Working, List!Counted
<1>2. ASSUME NEW k \in Keywords, q \in entered, entered' = entered \ {q},
             List!CountFilters(q, k)
      PROVE  entered' \subseteq entered /\ Working' \subseteq Working /\ filters' = filters
  <2>1. List!Counted' \subseteq List!Counted \cup {q}
    BY <1>2 DEF List!CountFilters, List!Counted, ListTypes, List!TypeOK
  <2> QED
    BY <1>2, <2>1 DEF List!CountFilters, Working
<1>3. ASSUME NEW k \in Keywords, q \in entered, entered' = entered \ {q},
             List!DeleteCommentFilter(k)
      PROVE  entered' \subseteq entered /\ Working' \subseteq Working /\ Working' # Working
  <2>1. List!Counted' = List!Counted
    BY <1>3 DEF List!DeleteCommentFilter, List!Counted
  <2>2. q \in Working /\ q \notin Working'
    BY <1>3, <2>1 DEF Working, Apart
  <2> QED
    BY <1>3, <2>1, <2>2 DEF Working
<1>4. ASSUME UNCHANGED entered, List!InsertFilter(q) \/ List!AbandonFilter(q)
      PROVE  entered' \subseteq entered /\ Working' \subseteq Working /\ Working' # Working
  <2>1. List!Counted' = List!Counted \ {q} /\ q \in List!Counted
    BY <1>4 DEF List!InsertFilter, List!AbandonFilter, List!Counted, ListTypes, List!TypeOK
  <2> QED
    BY <1>4, <2>1 DEF Working, Apart
<1> QED
  BY <1>1, <1>2, <1>3, <1>4 DEF ChangeFilters, FirstStatement

\* A closed owner's list changes only by the requests that were let in before
\* the last token ended, once by each, for any number of them and however long
\* they wait.
THEOREM DeletedOwnerDrainsCorrect == Spec => DeletedOwnerDrains
<1> DEFINE Drains ==
      /\ entered' \subseteq entered /\ Working' \subseteq Working
      /\ filters' # filters => Working' # Working
<1>1. ASSUME LeaseInv, ListTypes, Apart, [Next]_vars, since[Owner] >= AccessTTL
      PROVE  Drains
  <2>1. ~AuthMiddleware(Owner)
    BY <1>1, NotLetIn, AccountsAssumption
  <2>2. ASSUME UNCHANGED list, UNCHANGED entered
        PROVE  Drains
    BY <2>2 DEF list, Working, List!Counted
  <2>3. ASSUME NEW q \in Adders, Enter(q) \/ ChangeFilters(q)
        PROVE  Drains
    BY <1>1, <2>1, <2>3, ListDrains DEF Enter
  <2>4. CASE \E q \in Calls : AdminStep(q)
    BY <2>2, <2>4, AdminStepSplit
  <2>5. CASE LeaseStep \/ UNCHANGED vars
    BY <2>2, <2>5 DEF LeaseStep, vars
  <2> QED
    BY <1>1, <2>3, <2>4, <2>5 DEF Next
<1>2. LeaseInv /\ ListTypes /\ Apart /\ [Next]_vars
        => [since[Owner] >= AccessTTL => Drains]_vars
  BY <1>1
<1> HIDE DEF Drains
<1>3. Spec => [][since[Owner] >= AccessTTL => Drains]_vars
  BY <1>2, LeaseHolds, ListTyped, ApartHolds, PTL DEF Spec
<1> QED
  BY <1>3, PTL DEF DeletedOwnerDrains, Drains

\* Once every admin's account has been closed for a token's life, users are
\* changed only by the calls that were let in before, once by each.
THEOREM ModerationDrainsCorrect == Spec => ModerationDrains
<1> DEFINE AllGone == \A a \in Admins : since[a] >= AccessTTL
           Rests == /\ UNCHANGED <<suspended, banned>>
                    /\ \A u \in Users : account[u] = "live" => account'[u] = "live"
           Drains ==
             /\ Waiting' \subseteq Waiting
             /\ Waiting' = Waiting => Rests
<1>1. ASSUME LeaseInv, ModerationInv, [Next]_vars, AllGone
      PROVE  Drains
  <2> USE AccountsAssumption
  <2>1. ASSUME NEW q \in Calls, NEW a \in Admins
        PROVE  ~LetIn(q, a)
    BY <1>1, NotLetIn DEF LetIn, AdminRoute, AdminMiddleware
  <2>2. ASSUME NEW q \in Calls, q \in Waiting, q \notin Waiting',
               \A p \in Calls \ {q} : caller'[p] = caller[p] /\ auditing'[p] = auditing[p]
        PROVE  Drains
    BY <2>2 DEF Waiting
  <2>3. ASSUME NEW q \in Calls, NEW u \in Users, SuspendUser(q, u)
        PROVE  Drains
    <3>1. q \in Waiting /\ q \notin Waiting'
      BY <1>1, <2>3 DEF SuspendUser, Waiting, ModerationInv, ModerationTypes
    <3>2. \A p \in Calls \ {q} : caller'[p] = caller[p] /\ auditing'[p] = auditing[p]
      BY <1>1, <2>3 DEF SuspendUser, ModerationInv, ModerationTypes
    <3> QED
      BY <2>2, <3>1, <3>2
  <2>4. ASSUME NEW q \in Calls, q \in Waiting, Done(q)
        PROVE  Drains
    <3>1. q \notin Waiting'
      BY <1>1, <2>4, DoneFits DEF Waiting, ModerationInv
    <3> QED
      BY <1>1, <2>2, <2>4, <3>1, DoneFits DEF ModerationInv
  <2>5. ASSUME NEW q \in Calls, RecordAction(q) \/ LoseRecord(q)
        PROVE  Drains
    <3>1. Rests
      BY <2>5 DEF RecordAction, LoseRecord, lease
    <3>2. Waiting' = Waiting
      <4>1. Done(q) /\ auditing[q] # NoUser
        BY <2>5 DEF RecordAction, LoseRecord
      <4> QED
        BY <1>1, <4>1, DoneFits DEF Waiting, ModerationInv
    <3> QED
      BY <3>1, <3>2
  <2>6. ASSUME NEW q \in Calls, AdminStep(q)
        PROVE  Drains
    BY <2>1, <2>3, <2>4, <2>5, <2>6
       DEF AdminStep, Dismiss, UnsuspendUser, BanUser, AdminDeleteUser
  <2>7. CASE LeaseStep
    <3>1. Rests
      BY <1>1, <2>7 DEF LeaseStep, moderation, LeaseInv, Lease!TypeOK,
             Lease!Tick, Lease!Register, Lease!Close, Lease!Grant
    <3>2. Waiting' = Waiting
      BY <2>7 DEF LeaseStep, calls, Waiting
    <3> QED
      BY <3>1, <3>2
  <2>8. CASE (\E q \in Adders : Enter(q) \/ ChangeFilters(q)) \/ UNCHANGED vars
    <3>1. UNCHANGED lease /\ UNCHANGED calls /\ UNCHANGED moderation
      BY <2>8, FiltersStepSplit DEF vars
    <3> QED
      BY <3>1 DEF lease, calls, moderation, Waiting
  <2> QED
    BY <1>1, <2>6, <2>7, <2>8 DEF Next
<1>2. LeaseInv /\ ModerationInv /\ [Next]_vars => [AllGone => Drains]_vars
  BY <1>1
<1> HIDE DEF AllGone, Drains
<1>3. Spec => [][AllGone => Drains]_vars
  BY <1>2, LeaseHolds, ModerationHolds, PTL DEF Spec
<1> QED
  BY <1>3 DEF ModerationDrains, AllGone, Drains, Rests
=============================================================================
