------------------------------- MODULE Signals -------------------------------
(***************************************************************************)
(* How one measurement of an RT27 message becomes a row of the table        *)
(* (rt27View in internal/store/store.go, BandSlot and AppendSignal in       *)
(* internal/model): each block is put in the column of a band, where it     *)
(* replaces a weaker one of the same block and track type, and when all     *)
(* blocks are in, the signals of each column are ordered for display.       *)
(*                                                                          *)
(* Blocks arrive one at a time, in any order and any number of times.  Of a *)
(* signal's label (TrackTypeName) the column it names is modelled; its hint *)
(* and the slip fields ride along and are left out.                         *)
(***************************************************************************)
EXTENDS Integers, Sequences, FiniteSets

CONSTANTS
  Systems, BlockTypes, TrackTypes,   \* bytes of a measurement
  SNRs,                              \* signal strengths
  MaxBlocks                          \* bound on the blocks of a measurement

ASSUME SignalsAssumption ==
  /\ Systems \subseteq 0 .. 255
  /\ BlockTypes \subseteq 0 .. 255
  /\ TrackTypes \subseteq 0 .. 255
  /\ SNRs \subseteq Nat
  /\ MaxBlocks \in Nat

GPS == 0
SBAS == 1
GLONASS == 2
Galileo == 3
QZSS == 4
OmniStar == 6
Terralite == 8
Beidou == {5, 7, 10}

L1 == 0
L2 == 1
L5 == 2
E5B == 3
E5AB == 4
E6 == 5
B1 == 6
B3 == 7
E1 == 8
G3 == 9
XPS == 10
S1 == 11

\* Columns of the table; NoBand is BandSlot's 0.
BandL1 == 1
BandL2 == 2
BandL5 == 3
BandL6 == 4
NoBand == 0
Bands == BandL1 .. BandL6

VARIABLES
  system,     \* the measurement's SVType
  received,   \* history: the blocks, in order of arrival
  columns,    \* row.L1, L2, L5, L6: their Signals
  phase       \* "blocks", then "ordered"

vars == <<system, received, columns, phase>>

Signal == [block : BlockTypes, track : TrackTypes, snr : SNRs]

Init ==
  /\ system \in Systems
  /\ received = <<>>
  /\ columns = [b \in Bands |-> <<>>]
  /\ phase = "blocks"

-----------------------------------------------------------------------------
(* BandSlot.                                                                *)

\* Mutant: the case of the L2 types is missing.
TableNoL2(l1, l2, l6, other, block) ==
  IF block \in l1 THEN BandL1 ELSE IF block \in l6 THEN BandL6 ELSE other

\* The column of a block type under a system: the sets of block types of L1, L2
\* and L6, and the column of every other one.
Table(l1, l2, l6, other, block) ==
  IF block \in l1 THEN BandL1
  ELSE IF block \in l2 THEN BandL2
  ELSE IF block \in l6 THEN BandL6 ELSE other

bandSlotGeneric(block, track) ==
  CASE track \in {6, 7, 8} -> BandL5
    [] track \in {29, 31, 36, 37, 38} -> BandL6
    [] track = 26 -> IF block = B1 THEN BandL1 ELSE BandL6
    [] OTHER ->
         IF block \in {L5, E5AB, XPS} THEN BandL5
         ELSE Table({L1, B1, E1, S1}, {L2, E5B}, {E6, B3}, NoBand, block)

BandSlot(sys, block, track) ==
  IF track = 20 THEN BandL1
  ELSE CASE sys \in Beidou ->
              IF track \in {6, 8} THEN BandL5 ELSE Table({B1}, {}, {B3}, BandL5, block)
         [] sys \in {GPS, QZSS} -> Table({L1, E1, S1}, {L2}, {}, BandL5, block)
         [] sys = GLONASS -> Table({L1}, {L2}, {}, BandL5, block)
         [] sys = Galileo -> Table({L1, E1}, {}, {E6}, BandL5, block)
         [] sys = SBAS ->
              IF track \in {6, 7, 8} THEN BandL5 ELSE Table({L1, S1}, {}, {}, BandL5, block)
         [] sys \in {OmniStar, Terralite} -> Table({L1, S1}, {}, {}, BandL5, block)
         [] OTHER -> bandSlotGeneric(block, track)

-----------------------------------------------------------------------------
(* TrackTypeName: the column of the band or service that the label names,   *)
(* or NoBand: "C/A", "P", "BOC(PD)", "CBOC" and the like name none.          *)

\* signalCodeName gives a label
hasCodeName(sys, track) == track \in {3, 4, 20} \/ (track \in {6, 8} /\ sys \in Beidou)

\* "L2CM", "L2CL", "B2B", "B2A", "L1C", "B1C" and "E1"
signalCodeBand(sys, track) ==
  CASE track \in {3, 4} -> BandL2
    [] track \in {6, 8} /\ sys \in Beidou -> BandL5
    [] track = 20 /\ sys \in Beidou \cup {GPS, QZSS, Galileo} -> BandL1
    [] OTHER -> NoBand

\* "E1", "E5A", "E5B", "E5Alt" and "E6"
galileoTrackBand(block) ==
  CASE block = E1 -> BandL1
    [] block \in {L5, E5B, E5AB} -> BandL5
    [] block = E6 -> BandL6
    [] OTHER -> NoBand

\* "G3-D+P", "G3-P" and "G3-D"; "CA" and "P" name no band
glonassTrackBand(block, track) ==
  IF block = G3 /\ track \in {32, 33, 34} THEN BandL5 ELSE NoBand

\* "L5-I", "L5-Q" and "L5-IQ", whatever the block
sbasTrackBand(track) == IF track \in {6, 7, 8} THEN BandL5 ELSE NoBand

\* "XPS" and "MSS"; BandSlot has the blocks of XPS in column L5
mssTrackBand(sys, block, track) ==
  IF sys = Terralite /\ (block = XPS \/ track = 35) THEN BandL5
  ELSE IF block \in {L1, S1} THEN BandL1 ELSE NoBand

\* The label of a system's own table
ownTrackBand(sys, block, track) ==
  CASE sys = Galileo -> galileoTrackBand(block)
    [] sys = GLONASS -> glonassTrackBand(block, track)
    [] sys = SBAS -> sbasTrackBand(track)
    [] sys \in {OmniStar, Terralite} -> mssTrackBand(sys, block, track)
    [] OTHER -> NoBand

\* The labels of every system: "L2E", "L2CM", "L2CL" and "L2C", "L5-I", "L5-Q", "L5-IQ"
\* and "B2", "B1" and "B1-2", "B3" and "E6"
trackBand(block, track) ==
  CASE track \in {3, 4, 5} -> BandL2
    [] track = 2 -> IF block = L2 THEN BandL2 ELSE NoBand
    [] track \in {6, 7, 8, 28} -> BandL5
    [] track = 27 -> BandL1
    [] track = 26 -> IF block = B1 THEN BandL1 ELSE BandL6
    [] track \in {29, 31, 36, 37, 38} -> BandL6
    [] OTHER -> NoBand

LabelBand(sys, block, track) ==
  IF hasCodeName(sys, track) THEN signalCodeBand(sys, track)
  ELSE LET own == ownTrackBand(sys, block, track)
       IN IF own # NoBand THEN own ELSE trackBand(block, track)

-----------------------------------------------------------------------------
(* AppendSignal.                                                            *)

SameSignal(s, t) == s.block = t.block /\ s.track = t.track

\* Mutant: repeated blocks are not looked for.
AppendOnly(sigs, sig) == Append(sigs, sig)

\* Mutant: the latest block replaces a stronger one.
ReplaceAlways(sigs, sig) ==
  IF \E i \in DOMAIN sigs : SameSignal(sigs[i], sig)
  THEN [i \in DOMAIN sigs |-> IF SameSignal(sigs[i], sig) THEN sig ELSE sigs[i]]
  ELSE Append(sigs, sig)

\* The loop finds at most one signal, since it appends only when it finds none.
AppendSignal(sigs, sig) ==
  IF \E i \in DOMAIN sigs : SameSignal(sigs[i], sig)
  THEN [i \in DOMAIN sigs |->
          IF SameSignal(sigs[i], sig) /\ sig.snr >= sigs[i].snr THEN sig ELSE sigs[i]]
  ELSE Append(sigs, sig)

\* One turn of the loop over meas.Blocks, with assignBand
Block(sig) ==
  /\ phase = "blocks"
  /\ Len(received) < MaxBlocks
  /\ received' = Append(received, sig)
  /\ LET band == BandSlot(system, sig.block, sig.track)
     IN columns' = IF band \in Bands
                   THEN [columns EXCEPT ![band] = AppendSignal(@, sig)]
                   ELSE columns
  /\ UNCHANGED <<system, phase>>

-----------------------------------------------------------------------------
(* orderBandSignals.                                                        *)

signalOrder(sys, s) ==
  CASE sys = Galileo /\ s.block \in {L5, E5B, E5AB, E6} -> s.block - L5
    [] sys \in {GLONASS, GPS, SBAS} /\ s.track \in {0, 1} -> 1 - s.track
    [] OTHER -> s.track

Exchange(s, i, j) == [s EXCEPT ![i] = s[j], ![j] = s[i]]

\* if signalOrder(system, out[j]) < signalOrder(system, out[i])
Compare(sys, s, i, j) ==
  IF signalOrder(sys, s[j]) < signalOrder(sys, s[i]) THEN Exchange(s, i, j) ELSE s

\* The loop over j for one i: every later signal that belongs before i is exchanged.
Round(sys, sigs, i) ==
  LET scan[j \in i .. Len(sigs)] ==
        IF j = i THEN sigs ELSE Compare(sys, scan[j - 1], i, j)
  IN scan[Len(sigs)]

\* Mutant: only the first signal is put in its place.
OneRound(sys, sigs) == IF sigs = <<>> THEN sigs ELSE Round(sys, sigs, 1)

\* The exchange sort
orderSignals(sys, sigs) ==
  LET pass[i \in 0 .. Len(sigs)] == IF i = 0 THEN sigs ELSE Round(sys, pass[i - 1], i)
  IN pass[Len(sigs)]

\* After the loop over the blocks
Order ==
  /\ phase = "blocks"
  /\ columns' = [b \in Bands |-> orderSignals(system, columns[b])]
  /\ phase' = "ordered"
  /\ UNCHANGED <<system, received>>

-----------------------------------------------------------------------------
(* normalizeAzimuth, of a signed 16-bit number of degrees.                  *)

\* a := int(az) % 360, with the sign of az as in Go
Remainder(a) == IF a >= 0 THEN a % 360 ELSE -((-a) % 360)

\* Mutant: negative remainders stay.
NegativeKept(az) == Remainder(az)

normalizeAzimuth(az) ==
  LET a == Remainder(az) IN IF a < 0 THEN a + 360 ELSE a

Next == (\E sig \in Signal : Block(sig)) \/ Order

Spec == Init /\ [][Next]_vars

-----------------------------------------------------------------------------
(* Properties.                                                              *)

Byte == 0 .. 255

Int16 == -32768 .. 32767

\* Whatever the 16 bits received, a row's azimuth is a direction (a pure function,
\* looked at in the initial states).
AzimuthsAreDirections ==
  received = <<>> => \A az \in Int16 : normalizeAzimuth(az) \in 0 .. 359

\* Types
TypeOK ==
  /\ system \in Systems
  /\ AzimuthsAreDirections
  /\ received \in Seq(Signal)
  /\ columns \in [Bands -> Seq(Signal)]
  /\ phase \in {"blocks", "ordered"}

Entries == UNION {{<<b, i>> : i \in DOMAIN columns[b]} : b \in Bands}
At(e) == columns[e[1]][e[2]]

(***************************************************************************)
(* In the whole row a kind of signal (block and track type) has one entry:  *)
(* neither repeated blocks nor the sort put it in two places.               *)
(***************************************************************************)
OneEntryPerSignal ==
  \A e, f \in Entries : SameSignal(At(e), At(f)) => e = f

(***************************************************************************)
(* No block of a system that BandSlot knows is lost, whatever its block and *)
(* track type: its kind is in the row, with the strongest SNR received for  *)
(* it, and the row shows nothing that was not received.                     *)
(***************************************************************************)
Known == Beidou \cup {GPS, SBAS, GLONASS, Galileo, QZSS, OmniStar, Terralite}

StrongestKept ==
  /\ \A e \in Entries : \E i \in DOMAIN received : received[i] = At(e)
  /\ system \in Known =>
       \A i \in DOMAIN received : \E e \in Entries :
         SameSignal(At(e), received[i]) /\ At(e).snr >= received[i].snr

(***************************************************************************)
(* For every system that BandSlot knows and every byte of block and track   *)
(* type there is a column, and it makes sense: only GPS, QZSS and GLONASS   *)
(* have L2 and show no block of type L2 as L5, only Galileo and BeiDou have *)
(* L6.  And a label that names a band stands in the column of that band,    *)
(* except where Misnamed lists it.  TrackTypeName and BandSlot are tables   *)
(* of their own (signal.go:39, band.go), where a track type may override    *)
(* the block in one and not in the other, and they do disagree:             *)
(*   - "XPS" for track type 35 of Terralite stands in column L1 with blocks *)
(*     L1 and S1;                                                           *)
(*   - "L2CM" and "L2CL" are given on any block, and stand in the column of *)
(*     that block;                                                          *)
(*   - so do the labels that no system's table gives: "L5-I" of a GPS block *)
(*     L1 in column L1, "L2C" of a block L5 in L5, "E6" of a GPS block ...  *)
(* Nowhere else; and where BandSlot lets the track type override the block, *)
(* the label names that column or none.  (Pure functions, looked at in the  *)
(* initial states.)                                                         *)
(***************************************************************************)
HasL2 == {GPS, QZSS, GLONASS}

\* The column of a block; track type 0 overrides no block.
BlockColumn(block) == BandSlot(system, block, 0)

Misnamed(block, track) ==
  \/ system = Terralite /\ track = 35 /\ block \in {L1, S1}
  \/ track \in {3, 4} /\ ~(block = L2 /\ system \in HasL2)
  \/ /\ ~hasCodeName(system, track) /\ ownTrackBand(system, block, track) = NoBand
     /\ trackBand(block, track) # BlockColumn(block)

LabelAgrees(block, track) ==
  LET named == LabelBand(system, block, track)
      band == BandSlot(system, block, track)
  IN named # NoBand =>
       /\ band = named <=> ~Misnamed(block, track)
       /\ band # BlockColumn(block) => band = named

ColumnsMakeSense ==
  system \in Known /\ received = <<>> =>
    \A block, track \in Byte :
      LET band == BandSlot(system, block, track)
      IN /\ band \in Bands
         /\ band = BandL2 => system \in HasL2
         /\ band = BandL6 => system \in {Galileo} \cup Beidou
         /\ block = L2 /\ system \in HasL2 => band # BandL5
         /\ LabelAgrees(block, track)

(***************************************************************************)
(* The signals of every column are in display order once the row is done:   *)
(* P before C/A where a system has both, as the comment at store.go:173     *)
(* says (the comments at :132 and :144 say C/A before P), E5A, E5B and      *)
(* E5Alt of Galileo in this order, otherwise the lower track type first.    *)
(* Signals that none of these rules orders may stand in any order, not only *)
(* in that of the blocks: the exchange sort is not stable, though :144      *)
(* calls it so.                                                             *)
(***************************************************************************)
DualCodes == {GPS, GLONASS, SBAS}
E5Order == {<<L5, E5B>>, <<L5, E5AB>>, <<E5B, E5AB>>}

\* s belongs before t.
Before(sys, s, t) ==
  \/ sys = Galileo /\ <<s.block, t.block>> \in E5Order
  \/ sys \in DualCodes /\ s.track = 1 /\ t.track = 0
  \/ /\ s.track < t.track
     /\ ~(sys \in DualCodes /\ s.track = 0 /\ t.track = 1)
     /\ ~(sys = Galileo /\ {s.block, t.block} \cap {L5, E5B, E5AB, E6} # {})

InDisplayOrder ==
  phase = "ordered" =>
    \A b \in Bands : \A i, j \in DOMAIN columns[b] :
      i < j => ~Before(system, columns[b][j], columns[b][i])
=============================================================================
