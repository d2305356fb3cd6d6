------------------------------ MODULE LiveRanking ------------------------------
(***************************************************************************)
(* The live standings of scripts/ingest_live_session.py: what its          *)
(* F1SignalRIngestor makes of F1's TimingData, a stream of differences     *)
(* after a snapshot on every (re)connection, and publishes in the gaps key *)
(* and, once the leader has finished, in the final one.                    *)
(*                                                                         *)
(* The race itself is part of the model: cars cross the line, overtake,    *)
(* are lapped, stop and go on.  F1 tells of each car what has changed in   *)
(* its line of the timing, in its own time and order.  A gap in seconds is *)
(* abstracted to the place times the spread of the field, as a ranking     *)
(* only compares gaps.  Standings are functions from cars to places.       *)
(***************************************************************************)
EXTENDS Integers, FiniteSets, Functions

CONSTANTS
  Cars,       \* car numbers; their order is that of the snapshot's lines
  Mapped,     \* cars whose driver is known
  Fragile,    \* cars that may stop
  Grids,      \* the orders the race may start in
  TotalLaps,  \* the race distance
  MaxOvertakes, \* bound on overtaking
  Spreads,    \* how far apart the cars may be
  Streams     \* whether F1 sends Position after the snapshot: both were seen

ASSUME RankingAssumption ==
  /\ Cars \subseteq Nat /\ IsFiniteSet(Cars) /\ Cars # {}
  /\ Mapped \subseteq Cars /\ Fragile \subseteq Cars
  /\ Grids \subseteq Bijection(Cars, 1..Cardinality(Cars))
  /\ TotalLaps \in Nat \ {0} /\ MaxOvertakes \in Nat
  /\ Spreads \subseteq Nat \ {0} /\ IsFiniteSet(Spreads) /\ Spreads # {}
  /\ Streams \subseteq BOOLEAN

VARIABLES
  place,      \* the running order on the road
  overtakes,  \* overtakes so far
  spread,     \* how far apart the cars are
  laps,       \* laps completed
  down,       \* laps a car has been lapped
  out,        \* cars flagged stopped, retired or hidden
  flagged,    \* cars that have taken the chequered flag
  streams,
  link,       \* connected and subscribed
  told,       \* each car's line as F1 last told of it on this connection
  heard,      \* _car_live_gap_state with _car_status_flags, but for
  position,   \*   each car's derived position and
  lapSeq,     \*   the message that told of its last lap
  positionDiffSeen,
  messageSeq, \* _message_seq, up to order
  lapsSeen,   \* _laps_seen
  gaps,       \* the standings in f1:{season}:{round}:gaps
  final,      \* and in f1:{season}:{round}:gaps:final
  leadChanged \* history: the lead changed since the first snapshot

raceVars   == <<place, overtakes, spread, laps, down, out, flagged>>
feedVars   == <<streams, link, told>>
tableVars  == <<heard, position, lapSeq, positionDiffSeen, messageSeq, lapsSeen>>
publicVars == <<gaps, final>>
rankingVars == <<raceVars, feedVars, tableVars, publicVars, leadChanged>>

Leader   == CHOOSE c \in Cars : place[c] = 1
Finished == laps[Leader] = TotalLaps

\* No value yet: no Position, no GapToLeader.
Nothing == 0

\* A car's line in the timing.  The leader's gap is blank; a lapped car's says
\* how many laps.
Line(c) ==
  [position |-> place[c],
   gap      |-> IF down[c] > 0 THEN Nothing ELSE (place[c] - 1) * spread,
   down     |-> down[c],
   laps     |-> laps[c],
   out      |-> c \in out]

Unknown == [f1 |-> Nothing, gap |-> Nothing, down |-> 0, laps |-> 0, out |-> FALSE]

Joined == \E c \in Cars : heard[c] # Unknown

\* The cars whose line has changed since F1 last told of it.
News == IF link THEN {c \in Cars : told[c] # Line(c)} ELSE {}

Nobody == <<>>

RankingInit ==
  /\ place \in Grids /\ overtakes = 0 /\ spread \in Spreads
  /\ laps = [c \in Cars |-> 0]
  /\ down = [c \in Cars |-> 0]
  /\ out = {} /\ flagged = {}
  /\ streams \in Streams
  /\ link = FALSE /\ told = Nobody
  /\ heard = [c \in Cars |-> Unknown]
  /\ position = [c \in Cars |-> Nothing]
  /\ lapSeq = [c \in Cars |-> 0]
  /\ positionDiffSeen = FALSE
  /\ messageSeq = 0
  /\ lapsSeen = [c \in Cars |-> 0]
  /\ gaps = Nobody /\ final = Nobody
  /\ leadChanged = FALSE

------------------------------------------------------------------------------
(* The race.                                                               *)

Elsewhere == UNCHANGED <<feedVars, tableVars, publicVars>>

\* The leader goes ahead; another car crosses the line behind the car before it
\* on its lap, and where it is lapped not before the leader comes round again.
\* A car that crosses after the leader has finished is done.
MayCross(c) ==
  IF c = Leader
    THEN laps[c] < TotalLaps
    ELSE /\ laps[Leader] - laps[c] > down[c]
         /\ \A d \in Cars : place[d] = place[c] - 1 /\ down[d] = down[c] => laps[d] > laps[c]

CrossLine(c) ==
  /\ c \notin out \cup flagged
  /\ MayCross(c)
  /\ UNCHANGED <<place, overtakes, out, leadChanged>>
  /\ spread' \in IF c = Leader THEN Spreads ELSE {spread}
  /\ laps' = [laps EXCEPT ![c] = @ + 1]
  /\ down' = [d \in Cars |-> IF c = Leader /\ laps'[c] - laps[d] - 1 > down[d]
                               THEN laps'[c] - laps[d] - 1 ELSE down[d]]
  /\ flagged' = IF Finished' THEN flagged \cup {c} ELSE flagged
  /\ Elsewhere

\* c overtakes the car before it on its lap.
Overtake(c) ==
  /\ overtakes < MaxOvertakes /\ overtakes' = overtakes + 1
  /\ c \notin out \cup flagged
  /\ \E d \in Cars \ flagged :
       /\ place[d] = place[c] - 1 /\ laps[d] = laps[c] /\ down[d] = down[c]
       /\ place' = [place EXCEPT ![c] = place[d], ![d] = place[c]]
  /\ leadChanged' = (leadChanged \/ (place'[c] = 1 /\ Joined))
  /\ UNCHANGED <<spread, laps, down, out, flagged>>
  /\ Elsewhere

\* A car stops, and may go on.
StopOrGoOn(c) ==
  /\ c \in Fragile \ flagged
  /\ out' = IF c \in out THEN out \ {c} ELSE out \cup {c}
  /\ UNCHANGED <<place, overtakes, spread, laps, down, flagged, leadChanged>>
  /\ Elsewhere

------------------------------------------------------------------------------
(* The ingestor's table.                                                   *)

\* _update_gap_state: a blank gap updates nothing, seconds and laps down exclude
\* each other.
UpdateGapState(s, line) ==
  [f1   |-> IF line.position # Nothing THEN line.position ELSE s.f1,
   gap  |-> CASE line.gap # Nothing -> line.gap
              [] line.down > 0 -> Nothing
              [] OTHER -> s.gap,
   down |-> CASE line.gap # Nothing -> 0
              [] line.down > 0 -> line.down
              [] OTHER -> s.down,
   laps |-> IF line.laps > s.laps THEN line.laps ELSE s.laps,
   out  |-> line.out]

\* The lines of message seq update the table.  Message numbers matter by their
\* order alone: they are renumbered from 0.
Hear(lines, seq) ==
  /\ heard' = [c \in Cars |-> IF c \in DOMAIN lines THEN UpdateGapState(heard[c], lines[c])
                                                    ELSE heard[c]]
  /\ LET toldAt(c) == IF heard'[c].laps > heard[c].laps THEN seq ELSE lapSeq[c]
         used      == {0, seq} \cup {toldAt(c) : c \in Cars}
         number(n) == Cardinality({m \in used : m < n})
     IN /\ lapSeq' = [c \in Cars |-> number(toldAt(c))]
        /\ messageSeq' = number(seq)

\* The positions with those that lines give.
Moved(lines) ==
  [c \in Cars |-> IF c \in DOMAIN lines /\ lines[c].position # Nothing
                    THEN lines[c].position ELSE position[c]]

LexLess(a, b) == \E i \in DOMAIN a : a[i] < b[i] /\ \A j \in 1..(i - 1) : a[j] = b[j]

\* The places of the cars that have a key, by ascending key; ties keep the order
\* of the table.
RankBy(key) ==
  LET before(a, b) == LexLess(key[a], key[b]) \/ (key[a] = key[b] /\ a < b)
  IN [c \in DOMAIN key |-> 1 + Cardinality({d \in DOMAIN key : before(d, c)})]

OrLast(p) == IF p = Nothing THEN 999 ELSE p

\* The keys of _rank_by_gaps, from what was heard of a car, the message of its last
\* lap and its position: no gap, a gap in seconds, lapped.
GapKey(s, seq, p) ==
  CASE s.down > 0 -> <<2, s.down, -s.laps, seq, OrLast(p)>>
    [] s.down = 0 /\ s.gap # Nothing -> <<1, s.gap, 0, 0, 0>>
    [] OTHER -> <<0, OrLast(p), 0, 0, 0>>

F1Usable(table, ranking, seen) ==
  /\ seen
  /\ \A c \in ranking : table[c].f1 # Nothing
  /\ \A c, d \in ranking : table[c].f1 = table[d].f1 => c = d

\* Mutant of Ranking: by the derived position.
RankingByPosition(table, seqs, positions, seen) ==
  LET ranking == {c \in Cars : ~table[c].out}
      usable  == F1Usable(table, ranking, seen)
  IN RankBy([c \in ranking |-> IF usable THEN <<OrLast(positions[c])>>
                                         ELSE GapKey(table[c], seqs[c], positions[c])])

Ranking(table, seqs, positions, seen) ==
  LET ranking == {c \in Cars : ~table[c].out}
      usable  == F1Usable(table, ranking, seen)
  IN RankBy([c \in ranking |-> IF usable THEN <<table[c].f1>>
                                         ELSE GapKey(table[c], seqs[c], positions[c])])

\* Mutant of Recompute: a car out of the ranking keeps its position.
RecomputeKeepsOut(table, seqs, positions, seen) ==
  LET ranked == Ranking(table, seqs, positions, seen)
  IN [c \in Cars |-> IF table[c].out THEN positions[c] ELSE ranked[c]]

\* _recompute_positions
Recompute(table, seqs, positions, seen) ==
  LET ranked == Ranking(table, seqs, positions, seen)
  IN [c \in Cars |-> IF table[c].out THEN Nothing ELSE ranked[c]]

First(standings) == CHOOSE c \in DOMAIN standings : standings[c] = 1

LeaderHasFinished(entries, seen) == seen[First(entries)] >= TotalLaps

\* _publish_live_gaps
PublishLiveGaps(positions, seen) ==
  LET listed  == {c \in Mapped : positions[c] # Nothing}
      entries == RankBy([c \in listed |-> <<positions[c]>>])
  IN IF listed = {}
       THEN UNCHANGED publicVars
       ELSE /\ gaps' = entries
            /\ final' = IF LeaderHasFinished(entries, seen) THEN entries ELSE final

------------------------------------------------------------------------------
(* The connection.                                                         *)

\* _on_subscribe_result: every line of the snapshot updates the table, without
\* a ranking and without a look at completed laps; what changed is published.
Connect ==
  /\ ~link
  /\ link' = TRUE
  /\ UNCHANGED <<raceVars, streams, positionDiffSeen, lapsSeen, leadChanged>>
  /\ told' = [c \in Cars |-> Line(c)]
  /\ Hear(told', messageSeq)
  /\ position' = Moved(told')
  /\ IF <<heard', position'>> # <<heard, position>>
       THEN PublishLiveGaps(position', lapsSeen)
       ELSE UNCHANGED publicVars

Drop ==
  /\ link
  /\ link' = FALSE
  /\ told' = Nobody
  /\ UNCHANGED <<raceVars, streams, tableVars, publicVars, leadChanged>>

\* What a difference says: what changed, and Position only if F1 streams it.
Difference(c) ==
  [position |-> IF streams /\ place[c] # told[c].position THEN place[c] ELSE Nothing,
   gap      |-> IF Line(c).gap # told[c].gap \/ down[c] # told[c].down
                  THEN Line(c).gap ELSE Nothing,
   down     |-> IF down[c] # told[c].down THEN down[c] ELSE 0,
   laps     |-> IF laps[c] # told[c].laps THEN laps[c] ELSE 0,
   out      |-> c \in out]

\* Mutant of TimingData: the standings are published before the laps are counted.
TimingDataPublishesFirst(D) ==
  /\ link
  /\ UNCHANGED <<raceVars, streams, link, leadChanged>>
  /\ told' = [c \in Cars |-> IF c \in D THEN Line(c) ELSE told[c]]
  /\ LET lines == [c \in D |-> Difference(c)]
     IN /\ Hear(lines, messageSeq + 1)
        /\ positionDiffSeen' = (positionDiffSeen \/ \E c \in D : lines[c].position # Nothing)
        /\ position' = Recompute(heard', lapSeq', Moved(lines), positionDiffSeen')
        /\ lapsSeen' = [c \in Cars |-> IF c \in D /\ lines[c].laps > lapsSeen[c]
                                         THEN lines[c].laps ELSE lapsSeen[c]]
  /\ PublishLiveGaps(position', lapsSeen)

\* _handle_timing_data for a message about the cars D: their lines update the
\* table, the field is ranked, completed laps are counted, standings published.
TimingData(D) ==
  /\ link
  /\ UNCHANGED <<raceVars, streams, link, leadChanged>>
  /\ told' = [c \in Cars |-> IF c \in D THEN Line(c) ELSE told[c]]
  /\ LET lines == [c \in D |-> Difference(c)]
     IN /\ Hear(lines, messageSeq + 1)
        /\ positionDiffSeen' = (positionDiffSeen \/ \E c \in D : lines[c].position # Nothing)
        /\ position' = Recompute(heard', lapSeq', Moved(lines), positionDiffSeen')
        /\ lapsSeen' = [c \in Cars |-> IF c \in D /\ lines[c].laps > lapsSeen[c]
                                         THEN lines[c].laps ELSE lapsSeen[c]]
  /\ PublishLiveGaps(position', lapsSeen')

RankingNext ==
  \/ \E c \in Cars : CrossLine(c) \/ Overtake(c) \/ StopOrGoOn(c)
  \/ Connect \/ Drop
  \/ \E D \in SUBSET News \ {{}} : TimingData(D)

RankingSpec == RankingInit /\ [][RankingNext]_rankingVars

\* A message tells of c, and perhaps of others.
TellsOf(c) ==
  \E D \in SUBSET News :
    c \in D /\ told' = [d \in Cars |-> IF d \in D THEN Line(d) ELSE told[d]]

\* start() reconnects, and F1 tells in the end of whatever has changed; nothing
\* obliges the cars.
RankingFairSpec == RankingSpec /\ WF_link(Connect) /\ \A c \in Cars : WF_told(TellsOf(c))

------------------------------------------------------------------------------
IsStandings(standings) ==
  /\ DOMAIN standings \subseteq Mapped
  /\ \A c \in DOMAIN standings : standings[c] \in 1..Cardinality(DOMAIN standings)
  /\ IsInjective(standings)

\* Every variable has its type; the places of the cars in the ranking are distinct.
RankingTypeOK ==
  /\ IsInjective(place) /\ overtakes \in 0..MaxOvertakes /\ spread \in Spreads
  /\ place \in [Cars -> 1..Cardinality(Cars)]
  /\ {laps, lapsSeen, down} \subseteq [Cars -> 0..TotalLaps]
  /\ out \subseteq Cars /\ flagged \subseteq Cars
  /\ streams \in Streams
  /\ {link, positionDiffSeen, leadChanged} \subseteq BOOLEAN
  /\ \A c \in Cars :
       /\ {position[c], heard[c].f1} \subseteq 0..Cardinality(Cars)
       /\ \E n \in 0..Cardinality(Cars), k \in Spreads : heard[c].gap = n * k
       /\ {heard[c].down, heard[c].laps} \subseteq 0..TotalLaps
       /\ heard[c].out \in BOOLEAN /\ lapSeq[c] \in 0..messageSeq
  /\ messageSeq \in 0..(Cardinality(Cars) + 1)
  /\ IsStandings(gaps) /\ IsStandings(final)
  /\ \A c, d \in Cars :
       position[c] = position[d] /\ position[c] # Nothing => c = d

\* F1 has told of everything there is to tell.
Settled == link /\ News = {}

InRace == Mapped \ out

\* The standings list the cars in the race, in the running order.
InOrder ==
  /\ InRace \subseteq DOMAIN gaps
  /\ \A c, d \in InRace : gaps[c] < gaps[d] <=> place[c] < place[d]

\* _recompute_positions, source 1: once Position has streamed, the standings are
\* the running order as soon as F1's messages have caught up, in whatever order
\* and groups they came and whatever was lost while disconnected.
OrderSettles == Settled /\ positionDiffSeen => InOrder

\* ingest_live_session.py:144-146: when F1 is to tell that the leader has completed
\* the distance the final standings are written, unless the connection is lost
\* first or the leader is flagged out.
FinalIsWritten ==
  /\ link /\ (streams \/ ~leadChanged) /\ Leader \in Mapped
  /\ Finished /\ told[Leader].laps < TotalLaps
  ~> final # Nobody \/ Leader \in out \/ ~link
==============================================================================
