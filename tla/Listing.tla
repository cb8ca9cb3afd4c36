------------------------------- MODULE Listing -------------------------------
(***************************************************************************)
(* unifi.Client.ListClients: the gateway's list of connected clients is     *)
(* read in pages by offset, and the clients that connect and disconnect     *)
(* between two pages move the others under the reader.                      *)
(***************************************************************************)
EXTENDS Integers, SequencesExt

CONSTANTS
  Devices,   \* devices of the home, by MAC address
  Callers,   \* requests that read the list
  Limit      \* what a page may hold at most (200)

ASSUME LimitAssumption == Limit \in Nat \ {0}
ASSUME DevicesAssumption == IsFiniteSet(Devices)

VARIABLES
  clients,  \* the gateway's list of connected clients, in its order
  cursor    \* caller -> its loop over the pages

\* Where the loop of ListClients is: off, reading, or returned.  Ghosts: the
\* clients connected since it began (stay), how many disconnected ahead of the
\* offset (slipped) and how many connected there (pushed).
Cursor == [state : {"off", "on", "done"}, offset : Nat, all : Seq(Devices),
           stay : SUBSET Devices, slipped : Nat, pushed : Nat]

NoCursor == [state |-> "off", offset |-> 0, all |-> <<>>, stay |-> {},
             slipped |-> 0, pushed |-> 0]

Connected == ToSet(clients)

StartListing(c) ==
  cursor' = [cursor EXCEPT ![c] =
               [NoCursor EXCEPT !.state = "on", !.stay = Connected]]

\* Slip: the offset advances by what was asked for.
ByLimit(n) == Limit
Advance(n) == n

\* The gateway answers with any number of entries from the offset on, and none
\* only when there are none; TotalCount is the length of its list just then.
Page(c) ==
  LET r    == cursor[c]
      left == Len(clients) - r.offset
      next == r.offset
  IN  /\ r.state = "on"
      /\ \E n \in 0..Limit :
           /\ IF left > 0 THEN n \in 1..left ELSE n = 0
           /\ cursor' = [cursor EXCEPT
                ![c].all = @ \o SubSeq(clients, next + 1, next + n),
                ![c].offset = next + Advance(n),
                ![c].state = IF next + Advance(n) >= Len(clients) \/ n = 0
                             THEN "done" ELSE "on"]
      /\ UNCHANGED clients

\* The counts stop at the number of devices: a list read to its end is no longer.
OneMore(n) == IF n < Cardinality(Devices) THEN n + 1 ELSE n

\* A client disconnects, or connects at any place of the list.
Leave ==
  \E k \in 1..Len(clients) :
    /\ clients' = RemoveAt(clients, k)
    /\ cursor' = [c \in Callers |->
         IF cursor[c].state # "on" THEN cursor[c]
         ELSE [cursor[c] EXCEPT !.stay = @ \ {clients[k]},
                                !.slipped = IF k <= cursor[c].offset THEN OneMore(@) ELSE @]]

Join ==
  \E d \in Devices \ Connected, k \in 1..(Len(clients) + 1) :
    /\ clients' = InsertAt(clients, k, d)
    /\ cursor' = [c \in Callers |->
         IF cursor[c].state # "on" THEN cursor[c]
         ELSE [cursor[c] EXCEPT !.pushed = IF k <= cursor[c].offset THEN OneMore(@) ELSE @]]

Reading(c) == cursor[c].state # "off"
Missed(c)  == cursor[c].stay \ ToSet(cursor[c].all)
\* The places of the list where a client connected throughout is listed again.
Again(r) ==
  {i \in 1..Len(r.all) : r.all[i] \in r.stay /\ \E k \in 1..i - 1 : r.all[k] = r.all[i]}
Repeats(c) == Cardinality(Again(cursor[c]))

-----------------------------------------------------------------------------
\* A client that is connected the whole time is missing from the list only if
\* others disconnected that were ahead of the reader, one for each; and it is
\* listed twice only if others connected there.
ListedOnce ==
  \A c \in Callers :
    /\ cursor[c].state = "done" => Cardinality(Missed(c)) <= cursor[c].slipped
    /\ Reading(c) => Repeats(c) <= cursor[c].pushed
=============================================================================
