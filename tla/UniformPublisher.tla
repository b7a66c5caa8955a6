--------------------------- MODULE UniformPublisher ---------------------------
(***************************************************************************)
(* From the analysed frame to the shader's uniforms: the history rings the *)
(* DSP thread keeps (audio_system.cpp) and copies into each snapshot, and  *)
(* publish_uniforms() (src/output/uniform_publisher.cpp), which unrolls    *)
(* them on the render thread and writes them into ReShade's uniforms.      *)
(*                                                                         *)
(* A volume, and the amplitude of an active band, are told apart by the    *)
(* number of the frame they come from; 0 is silence.                       *)
(***************************************************************************)
EXTENDS Integers, Sequences

CONSTANTS
  VolumeFrames,  (* kVolumeHistoryLength                                   *)
  BandFrames,    (* kBandsHistoryFrames                                    *)
  MaxBands,      (* kMaxBands                                              *)
  BandCounts,    (* the band counts a frame may come with                  *)
  MaxFrames      (* bound on the frames analysed                           *)

ASSUME PublisherAssumption ==
  /\ {VolumeFrames, BandFrames, MaxBands} \subseteq Nat \ {0}
  /\ BandCounts \subseteq 1 .. MaxBands
  /\ MaxFrames \in Nat

Bands == 0 .. MaxBands - 1

VARIABLES
  counts,                (* history: the band count of each frame so far   *)
  volumeHistory,         (* volume_history_                                *)
  volumeHead,            (* volume_history_head_                           *)
  bandsHistory,          (* bands_history_, frame-major                    *)
  bandsHead,             (* bands_history_head_                            *)
  snapshot,              (* the published AudioSnapshot                    *)
  uniforms               (* the memory of the shader's uniforms            *)

ringVars == <<counts, volumeHistory, volumeHead, bandsHistory, bandsHead>>
publisherVars == <<ringVars, snapshot, uniforms>>

SilentBands == [b \in Bands |-> 0]
SilentVolumes == [i \in 0 .. VolumeFrames - 1 |-> 0]
SilentRows == [i \in 0 .. BandFrames - 1 |-> SilentBands]

ZeroSnapshot ==
  [volume |-> 0, bands |-> SilentBands, count |-> 0,
   volumeHistory |-> SilentVolumes, volumeHead |-> 0,
   bandsHistory |-> SilentRows, bandsHead |-> 0]

PublisherInit ==
  /\ counts = <<>>
  /\ volumeHistory = SilentVolumes
  /\ volumeHead = 0
  /\ bandsHistory = SilentRows
  /\ bandsHead = 0
  /\ snapshot = ZeroSnapshot
  /\ uniforms = [volume |-> 0, bands |-> SilentBands, count |-> 0,
                 volumeHistory |-> SilentVolumes,
                 bandsHistory |-> [i \in 0 .. MaxBands * BandFrames - 1 |-> 0]]

-------------------------------------------------------------------------------
(* A mutant of Advance: the last slot of the ring is not used.            *)
AdvanceShort(head, length) == (head + 1) % (length - 1)

(* The slot written next, which is that of the oldest frame.              *)
Advance(head, length) == (head + 1) % length

(* The DSP thread projects a frame with this many bands onto a fresh      *)
(* AudioSnapshot: the columns that are not active are zero.               *)
Analyse(count) ==
  LET frame == Len(counts) + 1
      bands == [b \in Bands |-> IF b < count THEN frame ELSE 0]
  IN  /\ frame <= MaxFrames
      /\ counts' = Append(counts, count)
      /\ volumeHistory' = [volumeHistory EXCEPT ![volumeHead] = frame]
      /\ volumeHead' = Advance(volumeHead, VolumeFrames)
      /\ bandsHistory' = [bandsHistory EXCEPT ![bandsHead] = bands]
      /\ bandsHead' = Advance(bandsHead, BandFrames)
      /\ snapshot' =
           [volume |-> frame, bands |-> bands, count |-> count,
            volumeHistory |-> volumeHistory', volumeHead |-> volumeHead',
            bandsHistory |-> bandsHistory', bandsHead |-> bandsHead']
      /\ UNCHANGED uniforms

(* stop_locked() publishes a zeroed snapshot; the rings are not cleared.  *)
StopAudio ==
  /\ snapshot # ZeroSnapshot
  /\ snapshot' = ZeroSnapshot
  /\ UNCHANGED <<ringVars, uniforms>>

-------------------------------------------------------------------------------
(* "ring -> linear in time order (oldest..newest)".                       *)
Unrolled(ring, head, length) ==
  [i \in 0 .. length - 1 |-> ring[(head + 1 + i) % length]]

(* "flat band-major linear-time view", of the active bands only.          *)
Flattened(rows, count) ==
  [i \in 0 .. count * BandFrames - 1 |-> rows[i % BandFrames][i \div BandFrames]]

(* set_uniform_value_float(handle, values, n): the first n elements of    *)
(* the uniform are written, the others keep what they hold.               *)
WriteFirst(n, values, uniform) ==
  [i \in DOMAIN uniform |-> IF i < n THEN values[i] ELSE uniform[i]]

(* The uniform publisher runs once per rendered frame.                    *)
PublishUniforms ==
  LET count == snapshot.count
      rows == Unrolled(snapshot.bandsHistory, snapshot.bandsHead, BandFrames)
  IN  /\ uniforms' =
           [volume |-> snapshot.volume,
            bands |-> WriteFirst(count, snapshot.bands, uniforms.bands),
            count |-> count,
            volumeHistory |-> Unrolled(snapshot.volumeHistory,
                                       snapshot.volumeHead, VolumeFrames),
            bandsHistory |-> WriteFirst(count * BandFrames,
                               Flattened(rows, count), uniforms.bandsHistory)]
      /\ UNCHANGED <<ringVars, snapshot>>

PublisherNext == (\E count \in BandCounts : Analyse(count)) \/ StopAudio \/ PublishUniforms

PublisherSpec == PublisherInit /\ [][PublisherNext]_publisherVars

-------------------------------------------------------------------------------
(* The variables hold what the code can store in them.                    *)
PublisherTypeOK ==
  /\ counts \in Seq(BandCounts)
  /\ volumeHistory \in [0 .. VolumeFrames - 1 -> 0 .. MaxFrames]
  /\ volumeHead \in 0 .. VolumeFrames - 1
  /\ bandsHistory \in [0 .. BandFrames - 1 -> [Bands -> 0 .. MaxFrames]]
  /\ bandsHead \in 0 .. BandFrames - 1
  /\ snapshot.count \in BandCounts \cup {0}
  /\ uniforms.count \in BandCounts \cup {0}

(* The last `length` frames up to frame n, and, when frames with these    *)
(* band counts were analysed, what the volume and band b were at a frame. *)
LastFrames(n, length) == {n - k : k \in 0 .. length - 1}

VolumeAt(cs, frame) == IF frame \in DOMAIN cs THEN frame ELSE 0

BandAt(cs, frame, b) ==
  IF frame \in DOMAIN cs /\ b < cs[frame] THEN frame ELSE 0

(* Whatever stops and changes of the band count came before, and however  *)
(* frames and publishes interleave, the history a shader reads next to a  *)
(* volume holds each of the frames up to that volume once, none missing   *)
(* and none from elsewhere ...                                            *)
VolumeHistoryIsComplete ==
  uniforms.volume # 0 =>
    {uniforms.volumeHistory[i] : i \in DOMAIN uniforms.volumeHistory} =
      {VolumeAt(counts, m) : m \in LastFrames(uniforms.volume, VolumeFrames)}

(* ... and the section of each active band, that of `band * frames +      *)
(* frame`, the amplitudes of this band and no other.                      *)
BandHistoryIsComplete ==
  uniforms.volume # 0 =>
    \A b \in 0 .. uniforms.count - 1 :
      {uniforms.bandsHistory[b * BandFrames + f] : f \in 0 .. BandFrames - 1} =
        {BandAt(counts, m, b) : m \in LastFrames(uniforms.volume, BandFrames)}

(* The invariant of the publisher: both, and the heads stay in their rings*)
(* (one past the end would write past the end of a fixed array).          *)
PublisherInv == PublisherTypeOK /\ VolumeHistoryIsComplete /\ BandHistoryIsComplete

(* Why: in a ring of this length whose next slot is head, slot i is as     *)
(* many frames old as it lies behind the newest, which is before head ... *)
Age(i, head, length) ==
  IF i < head THEN head - 1 - i ELSE head - 1 - i + length

VolumesFollow(cs, ring, head, frame) ==
  /\ frame \in 0 .. Len(cs)
  /\ head \in 0 .. VolumeFrames - 1
  /\ DOMAIN ring = 0 .. VolumeFrames - 1
  /\ \A i \in 0 .. VolumeFrames - 1 :
       ring[i] = VolumeAt(cs, frame - Age(i, head, VolumeFrames))

RowsFollow(cs, rows, head, frame) ==
  /\ frame \in 0 .. Len(cs)
  /\ head \in 0 .. BandFrames - 1
  /\ rows \in [0 .. BandFrames - 1 -> [Bands -> Int]]
  /\ \A i \in 0 .. BandFrames - 1 : \A b \in Bands :
       rows[i][b] = BandAt(cs, frame - Age(i, head, BandFrames), b)

(* ... in the rings of the DSP thread and in the snapshot alike ...       *)
RingsFollow ==
  /\ VolumesFollow(counts, volumeHistory, volumeHead, Len(counts))
  /\ RowsFollow(counts, bandsHistory, bandsHead, Len(counts))
  /\ Len(counts) <= MaxFrames

SnapshotFollows ==
  /\ VolumesFollow(counts, snapshot.volumeHistory, snapshot.volumeHead, snapshot.volume)
  /\ RowsFollow(counts, snapshot.bandsHistory, snapshot.bandsHead, snapshot.volume)

(* ... and unrolling starts one slot late, so that of the shader's arrays *)
(* the last element is the oldest and the others ascend to the newest.    *)
UnrolledAge(i, length) == IF i = length - 1 THEN i ELSE length - 2 - i

UniformsFollow ==
  /\ uniforms.volume \in 0 .. Len(counts)
  /\ DOMAIN uniforms.volumeHistory = 0 .. VolumeFrames - 1
  /\ DOMAIN uniforms.bandsHistory = 0 .. MaxBands * BandFrames - 1
  /\ \A i \in 0 .. VolumeFrames - 1 :
       uniforms.volumeHistory[i] = VolumeAt(counts, uniforms.volume - UnrolledAge(i, VolumeFrames))
  /\ \A b \in 0 .. uniforms.count - 1 : \A f \in 0 .. BandFrames - 1 :
       uniforms.bandsHistory[b * BandFrames + f] =
         BandAt(counts, uniforms.volume - UnrolledAge(f, BandFrames), b)

(* The inductive invariant.                                               *)
HistoryInv ==
  PublisherTypeOK /\ RingsFollow /\ SnapshotFollows /\ UniformsFollow

(* "VolumeHistory: oldest at index 0, newest at index                     *)
(* VOLUME_HISTORY_FRAMES-1" (ListeningwayUniforms.fxh).                   *)
NewestIsLast ==
  uniforms.volumeHistory[VolumeFrames - 1] = uniforms.volume
===============================================================================
