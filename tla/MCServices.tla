------------------------------ MODULE MCServices ------------------------------
(***************************************************************************)
(* The services that share no rows, checked side by side: a behaviour      *)
(* picks one of them and lets only that one move.                          *)
(***************************************************************************)
EXTENDS Membership, Sessions, ChatRooms, TaskReports, RequestFeed, TLC

VARIABLE subject        \* which service this behaviour is about

servicesVars ==
    <<flight, membershipVars, sessionVars, chatVars, reportVars, feedVars, subject>>

Subject == {"organisation", "members", "joining", "sessions", "talk", "rooms", "reports",
            "paging", "views"}

ServicesInit ==
    /\ CallsInit /\ MembershipInit /\ SessionsInit /\ ChatsInit /\ ReportsInit
    /\ FeedInit
    /\ subject \in Subject
    /\ subject \notin {"paging", "views"} => reader = [role |-> "admin", rank |-> 0]

ServicesNext ==
    \/ /\ subject = "organisation"
       /\ FoundingNext \/ EditingNext \/ ComingAndGoingNext
       /\ UNCHANGED <<sessionVars, chatVars, reportVars, feedVars, subject>>
    \/ /\ subject = "members"
       /\ FoundingNext \/ RolesNext \/ ComingAndGoingNext
       /\ UNCHANGED <<sessionVars, chatVars, reportVars, feedVars, subject>>
    \/ /\ subject = "joining"
       /\ FoundingNext \/ ComingAndGoingNext \/ JoiningNext
       /\ UNCHANGED <<sessionVars, chatVars, reportVars, feedVars, subject>>
    \/ /\ subject = "sessions"
       /\ SessionsNext
       /\ UNCHANGED <<membershipVars, chatVars, reportVars, feedVars, subject>>
    \/ /\ subject = "talk"
       /\ TalkNext
       /\ UNCHANGED <<membershipVars, sessionVars, reportVars, feedVars, subject>>
    \/ /\ subject = "rooms"
       /\ RoomsNext
       /\ UNCHANGED <<membershipVars, sessionVars, reportVars, feedVars, subject>>
    \/ /\ subject = "reports"
       /\ ReportsNext
       /\ UNCHANGED <<membershipVars, sessionVars, chatVars, feedVars, subject>>
    \/ /\ subject = "paging"
       /\ PagingNext
       /\ UNCHANGED <<membershipVars, sessionVars, chatVars, reportVars, subject>>
    \/ /\ subject = "views"
       /\ ViewsNext
       /\ UNCHANGED <<membershipVars, sessionVars, chatVars, reportVars, subject>>

ServicesSpec == ServicesInit /\ [][ServicesNext]_servicesVars

HandlerSymmetry == Permutations(Handlers)

\* Rows and calls in flight keep their types, whatever calls overlap or fail.
ServicesTypeOK ==
    /\ MembershipTypeOK /\ SessionsTypeOK /\ ChatTypeOK /\ ReportsTypeOK /\ FeedTypeOK

=============================================================================
