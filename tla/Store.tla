-------------------------------- MODULE Store --------------------------------
(***************************************************************************)
(* The image store on flash (src/port/loraitp_store.c) as the firmware     *)
(* uses it: make_image() and run_sender() on a sending board,              *)
(* run_receiver() on a receiving one (src/firmware/app/main.cpp), the      *)
(* session's image_begin and image_end callbacks in between, and a power   *)
(* failure between any two file operations.                                *)
(*                                                                         *)
(* A picture is a number, counted up as pictures are taken or announced;   *)
(* a file's contents are the picture it holds.  How much of it arrived is  *)
(* Session's business.                                                     *)
(***************************************************************************)
EXTENDS Integers, FiniteSets, FiniteSetsExt, Functions

CONSTANTS
  Roles,    \* the roles cfg.role may be set to, of "sender" and "receiver"
  Keep,     \* st->keep, 0 keeps everything
  Faults,   \* of "crash", "nospace", "rename", "send", "timeout"
  MaxPics   \* bound of the model on the pictures taken or announced

ASSUME StoreAssumption ==
  /\ Roles \subseteq {"sender", "receiver"} /\ Keep \in Nat /\ MaxPics \in Nat
  /\ Faults \subseteq {"crash", "nospace", "rename", "send", "timeout"}

VARIABLES
  img,      \* img_N.jpg: sequence number -> picture
  side,     \* img_N.json: sequence number -> the picture it describes
  part,     \* img_N.jpg.part
  seq, next, fp, renamed,   \* struct loraitp_store; fp is what it is open for
  role,     \* cfg.role, read once in setup()
  app,      \* where the program is
  after,    \* where it goes on once the ring is pruned
  victim,   \* the image prune() is removing (lo.min)
  pics,     \* the latest picture
  reading   \* the picture the open session reads, 0 for none

disk == <<img, side, part>>
store == <<seq, next, fp, renamed>>
vars == <<disk, store, role, app, after, victim, pics, reading>>

NoFile == [s \in {} |-> 0]

\* The files f with the one of number s written, over an old one if need be.
With(f, s, picture) ==
  [t \in DOMAIN f \cup {s} |-> IF t = s THEN picture ELSE f[t]]

\* scan() for the highest number, and the number loraitp_store_init() goes on
\* with.
Newest == Max(DOMAIN img \cup {0})
NextSeqMut == 1
NextSeqLowMut == Newest
NextSeq == Newest + 1

Init ==
  /\ img = NoFile /\ side = NoFile /\ part = NoFile
  /\ seq = 0 /\ next = NextSeq /\ fp = "closed" /\ renamed = FALSE
  /\ role \in Roles
  /\ app = "ready" /\ after = "ready" /\ victim = 0 /\ pics = 0 /\ reading = 0

\* loraitp_store_begin_write() after store_begin() closed and removed a
\* previous attempt: a new .part file, or none when the flash is full.
BeginWrite(picture) ==
  /\ seq' = next /\ renamed' = FALSE
  /\ \/ /\ fp' = "write" /\ part' = With(NoFile, next, picture)
     \/ "nospace" \in Faults /\ fp' = "closed" /\ part' = NoFile
  /\ UNCHANGED <<img, side, next>>

\* fclose() and rename() into place; when that fails the .part is removed.
MoveIntoPlace ==
  /\ fp' = "closed" /\ part' = NoFile
  /\ \/ img' = With(img, seq, part[seq])
     \/ "rename" \in Faults /\ UNCHANGED img

InPlace == seq \in DOMAIN img' /\ img'[seq] = part[seq]

(***************************************************************************)
(* The sender: run_sender(), its store file open from make_image() on.     *)
(***************************************************************************)
\* make_image(): a file left open makes loraitp_store_begin_write() refuse.
Capture ==
  /\ role = "sender" /\ app = "ready" /\ pics < MaxPics
  /\ pics' = pics + 1
  /\ IF fp = "closed"
     THEN /\ BeginWrite(pics')
          /\ app' = IF fp' = "write" THEN "capture" ELSE "ready"
     ELSE UNCHANGED <<disk, store, app>>
  /\ UNCHANGED <<after, victim, reading, role>>

\* loraitp_store_finish() with the sidecar; its result is not looked at.
Captured ==
  /\ app = "capture"
  /\ MoveIntoPlace
  /\ app' = IF InPlace THEN "sidecar" ELSE "stored"
  /\ after' = "stored"
  /\ UNCHANGED <<side, seq, next, renamed, victim, pics, reading, role>>

\* loraitp_send_image(): image_begin() opens the newest image for reading.
SendBegins ==
  /\ app = "stored"
  /\ IF DOMAIN img = {}
     THEN app' = "ready" /\ UNCHANGED <<seq, fp, reading>>
     ELSE /\ app' = "sending" /\ seq' = Newest /\ fp' = "read"
          /\ reading' = img[Newest]
  /\ UNCHANGED <<disk, next, renamed, after, victim, pics, role>>

SendEnds ==
  /\ app = "sending" /\ app' = "ready"
  /\ fp' = "closed" /\ reading' = 0
  /\ UNCHANGED <<disk, seq, next, renamed, after, victim, pics, role>>

\* transmit() failed: loraitp_send_image() returns without image_end().
SendFails ==
  /\ "send" \in Faults /\ app = "sending" /\ app' = "ready"
  /\ reading' = 0
  /\ UNCHANGED <<disk, store, after, victim, pics, role>>

(***************************************************************************)
(* The receiver: loraitp_receive_image() and what run_receiver() does with *)
(* its result.                                                             *)
(***************************************************************************)
\* A META of another image, in a new call or in the running one.
Announced ==
  /\ role = "receiver" /\ app \in {"ready", "receiving"} /\ pics < MaxPics
  /\ pics' = pics + 1
  /\ BeginWrite(pics')
  /\ app' = IF fp' = "write" THEN "receiving" ELSE "ready"
  /\ UNCHANGED <<after, victim, reading, role>>

\* FIN: image_end(), then loraitp_store_finish() with the sidecar - which
\* refuses when image_end() could not rename.
Received ==
  /\ app = "receiving"
  /\ MoveIntoPlace
  /\ app' = IF InPlace THEN "sidecar" ELSE "ready"
  /\ after' = "ready" /\ renamed' = InPlace
  /\ UNCHANGED <<side, seq, next, victim, pics, reading, role>>

\* The session timeout: image_end() all the same, but run_receiver() returns
\* before loraitp_store_finish().
ReceiveTimesOut ==
  /\ "timeout" \in Faults /\ app = "receiving"
  /\ MoveIntoPlace
  /\ app' = "ready" /\ renamed' = InPlace
  /\ UNCHANGED <<side, seq, next, after, victim, pics, reading, role>>

(***************************************************************************)
(* The rest of loraitp_store_finish(), file operation by file operation.   *)
(***************************************************************************)
WriteSidecar ==
  /\ app = "sidecar" /\ app' = "prune"
  /\ side' = With(side, seq, pics)
  /\ next' = seq + 1 /\ renamed' = FALSE
  /\ UNCHANGED <<img, part, seq, fp, after, victim, pics, reading, role>>

\* loraitp_store_prune(): while there are more than keep, the lowest goes.
TooManyMut == Keep # 0 /\ Cardinality(DOMAIN img) > Keep + 1
TooMany == Keep # 0 /\ Cardinality(DOMAIN img) > Keep
OldestMut == Max(DOMAIN img)
Oldest == Min(DOMAIN img)

PruneImage ==
  /\ app = "prune" /\ TooMany
  /\ victim' = Oldest /\ app' = "unlink"
  /\ img' = Restrict(img, DOMAIN img \ {victim'})
  /\ UNCHANGED <<side, part, store, after, pics, reading, role>>

PruneSidecar ==
  /\ app = "unlink" /\ app' = "prune"
  /\ side' = Restrict(side, DOMAIN side \ {victim})
  /\ victim' = 0
  /\ UNCHANGED <<img, part, store, after, pics, reading, role>>

PruneDone ==
  /\ app = "prune" /\ ~TooMany /\ app' = after
  /\ UNCHANGED <<disk, store, after, victim, pics, reading, role>>

\* Power fails, or new settings restart the board, maybe in the other role;
\* setup() calls loraitp_store_init(), which removes .part files, derives the
\* next number from the directory and prunes.
PartsLeftMut == part
PartsLeft == NoFile

Crash ==
  /\ "crash" \in Faults /\ app' = "prune" /\ after' = "ready"
  /\ part' = PartsLeft
  /\ seq' = 0 /\ next' = NextSeq /\ fp' = "closed" /\ renamed' = FALSE
  /\ victim' = 0 /\ reading' = 0 /\ role' \in Roles
  /\ UNCHANGED <<img, side, pics>>

Next ==
  \/ Capture \/ Captured \/ SendBegins \/ SendEnds \/ SendFails
  \/ Announced \/ Received \/ ReceiveTimesOut
  \/ WriteSidecar \/ PruneImage \/ PruneSidecar \/ PruneDone
  \/ Crash

Spec == Init /\ [][Next]_vars

----------------------------------------------------------------------------
Pictures == 1..pics
Numbers == Nat \ {0}

\* The types of all variables.
TypeOK ==
  /\ \A f \in {img, side, part} :
       DOMAIN f \subseteq Numbers /\ f \in [DOMAIN f -> Pictures]
  /\ seq \in Nat /\ next \in Numbers
  /\ role \in Roles
  /\ fp \in {"closed", "read", "write"} /\ renamed \in BOOLEAN
  /\ app \in {"ready", "capture", "stored", "sending", "receiving",
              "sidecar", "prune", "unlink"}
  /\ after \in {"ready", "stored"} /\ victim \in Nat
  /\ pics \in 0..MaxPics /\ reading \in 0..pics

\* loraitp_store.h: `keep` is the ring depth.  Between transfers there are
\* never more finished images than that, and never more than one image too
\* many: flash does not fill up over the months.
RingBound ==
  Keep # 0 =>
    /\ app = "ready" => Cardinality({s \in DOMAIN img : s < next}) <= Keep
    /\ Cardinality(DOMAIN img) <= Keep + 1

\* loraitp_store.h: "The sequence number is monotonic" - also after crashes
\* that leave no counter behind, a higher number is a later picture.
NewestLast ==
  \A s, t \in DOMAIN img : s < t => img[s] < img[t]

\* A sidecar describes the image of its number, whatever was interrupted.
SidecarDescribes ==
  \A s \in DOMAIN img \cap DOMAIN side : side[s] = img[s]

\* A transfer that was interrupted or discarded leaves no .part file behind.
NoStalePart == DOMAIN part = IF fp = "write" THEN {seq} ELSE {}

\* docs/storage.md: the last N images are kept "as a ring", and a failed
\* transfer "keeps its partial image": an image leaves flash only when it is
\* the oldest of more than keep, and is never replaced by another.
Kept(s) ==
  \/ s \in DOMAIN img' /\ img'[s] = img[s]
  \/ TooMany /\ s = Min(DOMAIN img)
KeptUntilPushedOut == [][\A s \in DOMAIN img : Kept(s)]_vars

\* The same of every image loraitp_store_finish() has seen through, or that
\* was there when the board started.
FinishedIsKept == [][\A s \in DOMAIN img : s < next => Kept(s)]_vars

\* main.cpp, make_image(): "Store it, then let the core read it back out" -
\* if the picture just taken is on flash, it is what goes over the radio.
SendsTheCapture ==
  app = "sending" /\ pics \in Range(img) => reading = pics

\* loraitp_port.h: image_end is called "after the last one", so that between
\* two transfers the store has no file open and the next capture can start.
ClosedWhenReady == app = "ready" => fp = "closed"

=============================================================================
