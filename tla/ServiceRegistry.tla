--------------------------- MODULE ServiceRegistry ---------------------------
(***************************************************************************)
(* What package sd promises of the services that a process registers, with *)
(* none of the goroutines, the shared map and the two registries: a        *)
(* service is listed once at most, it is taken back only when it was told  *)
(* to go or when the program asks for it, the process does not return by   *)
(* itself while a service is listed, and what is listed when the process   *)
(* ends stays so.  Module SdRegister implements this specification.        *)
(***************************************************************************)
CONSTANTS
  Entries,     \* the services
  Program      \* the program itself, as one who is asked to end

VARIABLES
  listing,     \* "unlisted", "listed" or "over" for each service
  asked,       \* who was asked to end
  life         \* of the process: "up", "exited", "killed" or "crashed"

absVars == <<listing, asked, life>>

AbsInit ==
  /\ listing = [e \in Entries |-> "unlisted"]
  /\ asked = {}
  /\ life = "up"

Moves(e, from, to) == listing[e] = from /\ listing' = [listing EXCEPT ![e] = to]

\* A service is listed, or will never be.
List(e) == Moves(e, "unlisted", "listed") /\ UNCHANGED <<asked, life>>
GiveUp(e) == Moves(e, "unlisted", "over") /\ UNCHANGED <<asked, life>>

\* An interrupt comes, to those who listen to it.
Ask(S) == asked' = asked \cup S /\ UNCHANGED <<listing, life>>

\* A service that was asked to end is taken back.
Withdraw(e) ==
  /\ e \in asked
  /\ Moves(e, "listed", "over")
  /\ UNCHANGED <<asked, life>>

\* The program takes its service back, or tries to.
TakeBack(e) ==
  /\ asked' = asked \cup {Program}
  /\ Moves(e, "listed", "over") \/ UNCHANGED listing
  /\ UNCHANGED life

\* The process returns from main.
Exit ==
  /\ asked # {} \/ \A e \in Entries : listing[e] # "listed"
  /\ life' = "exited"
  /\ UNCHANGED <<listing, asked>>

\* The process ends in another way, maybe in an attempt to register a service.
Break ==
  /\ life' \in {"killed", "crashed"}
  /\ (\E e \in Entries : Moves(e, "unlisted", "over")) \/ UNCHANGED listing
  /\ UNCHANGED asked

AbsNext ==
  /\ life = "up"
  /\ \/ \E e \in Entries : List(e) \/ GiveUp(e) \/ Withdraw(e) \/ TakeBack(e)
     \/ \E S \in SUBSET (Entries \cup {Program}) : Ask(S)
     \/ Exit \/ Break

AbsSpec == AbsInit /\ [][AbsNext]_absVars
=============================================================================
