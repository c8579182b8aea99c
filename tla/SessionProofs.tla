---------------------------- MODULE SessionProofs ----------------------------
(***************************************************************************)
(* Proofs about Session, for images of any size and number, any block      *)
(* size, any retry limits and any fault the model has.                     *)
(***************************************************************************)
EXTENDS Session, FiniteSetTheorems, TLAPS

LEMMA ChunkFacts ==
  ASSUME NEW s \in Sessions
  PROVE  /\ Size[s] \in Nat \ {0}
         /\ Chunks(s) \subseteq Nat
         /\ IsFiniteSet(Chunks(s))
         /\ Cardinality(Chunks(s)) = Size[s]
<1>1. Size[s] \in Nat \ {0}
  BY SizeAssumption DEF Sessions
<1>2. IsFiniteSet(0..(Size[s] - 1)) /\ Cardinality(0..(Size[s] - 1)) = Size[s]
  <2>1. 0 \in Int /\ Size[s] - 1 \in Int /\ ~(0 > Size[s] - 1)
    BY <1>1
  <2>2. IsFiniteSet(0..(Size[s] - 1))
        /\ Cardinality(0..(Size[s] - 1)) =
             IF 0 > Size[s] - 1 THEN 0 ELSE (Size[s] - 1) - 0 + 1
    BY <2>1, FS_Interval, Zenon
  <2>3. QED
    BY <1>1, <2>2
<1>3. QED
  BY <1>1, <1>2 DEF Chunks

LEMMA BlockOfNat ==
  ASSUME NEW c \in Nat
  PROVE  c \div BlockSize \in Nat
  BY BlockSizeAssumption

(***************************************************************************)
(* Type correctness.  TypeOK is not inductive: an EOB is only sent while   *)
(* the retry limit is not reached, which `phase` remembers.                *)
(***************************************************************************)
TypeInv ==
  /\ TypeOK
  /\ phase = "eob" => retry < EobRetry
  /\ phase # "idle" => ses # 0

LEMMA TypeInit == Init => TypeInv
<1> SUFFICES ASSUME Init PROVE TypeInv
  OBVIOUS
<1>1. SenderTypes
  BY SizeAssumption, LimitAssumption DEF Init, SenderTypes, Rounds
<1>2. AirTypes
  BY ModeAssumption DEF Init, AirTypes, Frames, Replies, None
<1>3. FileTypes
  BY SizeAssumption, ModeAssumption DEF Init, FileTypes, NoFile
<1>4. LastTypes
  BY SizeAssumption DEF Init, LastTypes, NoResult
<1>5. QED
  BY <1>1, <1>2, <1>3, <1>4 DEF Init, TypeInv, TypeOK

SenderInv ==
  /\ SenderTypes
  /\ phase = "eob" => retry < EobRetry
  /\ phase # "idle" => ses # 0

LEMMA EnterBlockTypes ==
  ASSUME SenderInv, ses # 0, NEW b \in Nat, EnterBlock(b)
  PROVE  /\ phase' \in {"data", "fin"}
         /\ blk' \in Nat /\ round' \in Rounds /\ todo' \subseteq Nat
<1>1. ses \in Sessions
  BY DEF SenderInv, SenderTypes, Sessions
<1>2. BlockChunks(ses, b) \subseteq Nat
  BY <1>1, ChunkFacts DEF BlockChunks
<1>3. CASE b < NBlocks(ses)
  BY <1>2, <1>3, LimitAssumption DEF EnterBlock, Rounds
<1>4. CASE ~(b < NBlocks(ses))
  BY <1>4 DEF EnterBlock, SenderInv, SenderTypes
<1>5. QED
  BY <1>3, <1>4

LEMMA SenderTypesStep ==
  ASSUME SenderInv, [Next]_vars
  PROVE  SenderInv'
<1> USE SizeAssumption, LimitAssumption DEF Rounds, SenderInv, SenderTypes
<1>a. ses # 0 => \A b : BlockChunks(ses, b) \subseteq Nat
  BY ChunkFacts DEF Sessions, BlockChunks
<1>1. CASE StartImage
  BY <1>1 DEF StartImage
<1>2. CASE SendMeta
  BY <1>2 DEF SendMeta
<1>3. CASE FirstBlock
  <2>1. /\ phase' \in {"data", "fin"}
        /\ blk' \in Nat /\ round' \in Rounds /\ todo' \subseteq Nat
    BY <1>3, EnterBlockTypes DEF FirstBlock
  <2>2. QED
    BY <1>3, <2>1 DEF FirstBlock
<1>4. CASE SendChunk
  BY <1>4 DEF SendChunk
<1>5. CASE SendEob
  BY <1>5 DEF SendEob
<1>6. CASE TakeStat
  <2>1. /\ phase' \in {"data", "fin"}
        /\ blk' \in Nat /\ round' \in Rounds /\ todo' \subseteq Nat
    <3>1. CASE EnterBlock(blk + 1)
      BY <1>6, <3>1, EnterBlockTypes DEF TakeStat
    <3>2. CASE ~EnterBlock(blk + 1)
      BY SMTT(30), <1>6, <1>a, <3>2 DEF TakeStat, NextRound
    <3>3. QED
      BY <3>1, <3>2
  <2>2. confirmed' \subseteq Nat /\ UNCHANGED <<ses, metas, retry, outcome>>
    BY <1>6 DEF TakeStat
  <2>3. QED
    BY <1>6, <2>1, <2>2 DEF TakeStat
<1>7. CASE MissStat
  <2>1. CASE EobsLeft
    BY <1>7, <2>1 DEF MissStat, EobsLeft
  <2>2. CASE ~EobsLeft
    <3>1. /\ phase' \in {"data", "fin"}
          /\ blk' \in Nat /\ round' \in Rounds /\ todo' \subseteq Nat
      BY <1>7, <2>2, EnterBlockTypes DEF MissStat
    <3>2. UNCHANGED <<ses, metas, retry, confirmed, outcome>>
      BY <1>7 DEF MissStat
    <3>3. QED
      BY <1>7, <3>1, <3>2 DEF MissStat
  <2>3. QED
    BY <2>1, <2>2
<1>8. CASE SendFin
  BY <1>8 DEF SendFin
<1>9. CASE Finish
  BY <1>9 DEF Finish
<1>10. CASE SenderAborts
  BY <1>10 DEF SenderAborts
<1>11. CASE UNCHANGED senderVars
  BY <1>11 DEF senderVars
<1>12. QED
  BY <1>1, <1>2, <1>3, <1>4, <1>5, <1>6, <1>7, <1>8, <1>9, <1>10, <1>11
  DEF Next, Send, Hear, Air, vars, SendReply, Deadline, ReceiverResets,
      DnLost, UpLost, DnUnheard, UpUnheard, HearMeta, HearMetaRefused,
      HearMetaAgain, HearData, HearEob, HearFin, HearNothing

LEMMA FrameFacts ==
  ASSUME dn \in Frames
  PROVE  /\ dn # None => dn.ses \in Sessions
         /\ dn.type = "DATA" => dn.seq \in Nat
         /\ dn.type = "EOB" => dn.block \in Nat /\ dn.round \in Rounds
         /\ dn # None <=> dn.type \in {"META", "DATA", "EOB", "FIN"}
  BY DEF Frames, None

LEMMA AirTypesStep ==
  ASSUME SenderInv, AirTypes, FileTypes, [Next]_vars
  PROVE  AirTypes'
<1>a. ses # 0 => ses \in Sessions
  BY DEF SenderInv, SenderTypes, Sessions
<1>b. meta # 0 => meta \in Sessions
  BY DEF FileTypes, Sessions
<1>1. ASSUME dn' \in Frames, up' \in Replies, reply' \in Replies,
             losses' \in Nat \cup {-1}
      PROVE  AirTypes'
  BY <1>1 DEF AirTypes
<1>2. up' \in Replies
  BY DEF AirTypes, Replies, Next, Send, Hear, Air, vars, rxVars, senderVars,
     StartImage, SendMeta, FirstBlock, SendChunk, SendEob, TakeStat, MissStat,
     SendFin, Finish, SenderAborts, SendReply, Deadline, ReceiverResets,
     DnLost, UpLost, DnUnheard, UpUnheard, UpOnceListening, HearMeta,
     HearMetaRefused, HearMetaAgain, HearData, HearEob, HearFin, HearNothing
<1>3. losses' \in Nat \cup {-1}
  BY DEF AirTypes, Lose, Next, Send, Hear, Air, vars, rxVars, senderVars,
     StartImage, SendMeta, FirstBlock, SendChunk, SendEob, TakeStat, MissStat,
     SendFin, Finish, SenderAborts, SendReply, Deadline, ReceiverResets,
     DnLost, UpLost, DnUnheard, UpUnheard, HearMeta, HearMetaRefused,
     HearMetaAgain, HearData, HearEob, HearFin, HearNothing
<1>4. dn' \in Frames
  <2>1. CASE SendMeta
    BY <1>a, <2>1 DEF SendMeta, SenderInv, Frames, Meta
  <2>2. CASE SendChunk
    <3>1. PICK c \in Nat : dn' = Data(ses, c)
      BY <2>2 DEF SendChunk, SenderInv, SenderTypes
    <3>2. ses \in Sessions
      BY <1>a, <2>2 DEF SendChunk, SenderInv
    <3>3. QED
      BY <3>1, <3>2 DEF Frames, Data
  <2>3. CASE SendEob
    BY <1>a, <2>3 DEF SendEob, SenderInv, SenderTypes, Frames, Eob
  <2>4. CASE SendFin
    BY <1>a, <2>4 DEF SendFin, SenderInv, Frames, Fin
  <2>5. CASE dn' \in {dn, None}
    BY <2>5 DEF AirTypes, Frames
  <2>6. dn' \in {dn, None} \/ SendMeta \/ SendChunk \/ SendEob \/ SendFin
    BY DEF Hears, Next, Send, Hear, Air, vars, rxVars, senderVars, Return,
       StartImage, FirstBlock, TakeStat, MissStat,
       Finish, SenderAborts, SendReply, Deadline, ReceiverResets,
       DnLost, UpLost, DnUnheard, UpUnheard, HearMeta, HearMetaRefused,
       HearMetaAgain, HearData, HearEob, HearFin, HearNothing
  <2>7. QED
    BY <2>1, <2>2, <2>3, <2>4, <2>5, <2>6
<1>5. reply' \in Replies
  <2>1. CASE HearEob
    <3>1. Missing(dn.block, Turned(dn.block).present) \subseteq Nat
      BY <1>b, <2>1, ChunkFacts DEF HearEob, Missing, BlockChunks
    <3>2. dn.block \in Nat /\ dn.round \in Rounds /\ dn.ses \in Sessions
      BY <2>1, FrameFacts DEF AirTypes, HearEob, Hears
    <3>3. QED
      BY <1>b, <2>1, <3>1, <3>2 DEF HearEob, Replies, Stat
  <2>2. CASE HearFin
    BY <1>b, <2>2 DEF HearFin, Replies, Finack, Complete
  <2>3. CASE reply' \in {reply, None}
    BY <2>3 DEF AirTypes, Replies
  <2>4. reply' \in {reply, None} \/ HearEob \/ HearFin
    BY DEF Next, Send, Hear, Air, vars, rxVars, senderVars, Return,
       StartImage, SendMeta, FirstBlock, SendChunk, SendEob, TakeStat,
       MissStat, SendFin, Finish, SenderAborts, SendReply, Deadline,
       ReceiverResets, DnLost, UpLost, DnUnheard, UpUnheard, HearMeta,
       HearMetaRefused, HearMetaAgain, HearData, HearNothing
  <2>5. QED
    BY <2>1, <2>2, <2>3, <2>4
<1>6. QED
  BY <1>1, <1>2, <1>3, <1>4, <1>5

LEMMA HeldFinite ==
  ASSUME FileTypes
  PROVE  /\ IsFiniteSet(DOMAIN file)
         /\ IsFiniteSet(present) /\ Cardinality(present) \in Nat
         /\ meta # 0 => DOMAIN file = Chunks(meta)
<1>1. IsFiniteSet(DOMAIN file)
  BY ChunkFacts, FS_EmptySet DEF FileTypes, NoFile, Sessions
<1>2. present \subseteq DOMAIN file
  BY DEF FileTypes
<1>3. IsFiniteSet(present)
  BY <1>1, <1>2, FS_Subset
<1>4. QED
  BY <1>1, <1>3, FS_CardinalityType DEF FileTypes

LEMMA FlushedTypes ==
  ASSUME FileTypes, meta # 0
  PROVE  /\ FlushedFile \in [Chunks(meta) -> 0..Len(Size)]
         /\ FlushedHave \in Nat
<1>1. FlushedHave \in Nat
  BY HeldFinite DEF FileTypes, FlushedHave
<1>a. /\ DOMAIN file = Chunks(meta)
      /\ \A c \in Chunks(meta) : file[c] \in 0..Len(Size)
  BY DEF FileTypes
<1>2. CASE Buffered
  <2>1. \A c \in present : buf[c] \in 0..Len(Size)
    BY <1>2 DEF FileTypes, Sessions
  <2>2. FlushedFile =
          [c \in Chunks(meta) |-> IF c \in present THEN buf[c] ELSE file[c]]
    BY <1>a, <1>2 DEF FlushedFile
  <2>3. QED
    BY <1>1, <1>a, <2>1, <2>2
<1>3. CASE ~Buffered
  <2>1. FlushedFile = file
    BY <1>3 DEF FlushedFile
  <2>2. QED
    BY <1>1, <2>1 DEF FileTypes
<1>4. QED
  BY <1>1, <1>2, <1>3

LEMMA TurnedTypes ==
  ASSUME FileTypes, meta # 0, NEW b \in Nat
  PROVE  /\ Turned(b).file \in [Chunks(meta) -> 0..Len(Size)]
         /\ Turned(b).have \in Nat
         /\ Turned(b).present \subseteq Chunks(meta)
         /\ Turned(b).buf \in
              [IF Buffered THEN Turned(b).present ELSE {} -> Sessions]
<1>1. CASE b = cur
  BY <1>1 DEF Turned, FileTypes
<1>2. CASE b # cur
  <2>1. NoFile \in [{} -> Sessions]
    BY DEF NoFile
  <2>2. QED
    BY <1>2, <2>1, FlushedTypes DEF Turned
<1>3. QED
  BY <1>1, <1>2

LEMMA FileTypesStep ==
  ASSUME AirTypes, FileTypes, [Next]_vars
  PROVE  FileTypes'
<1> DEFINE T(b) == Turned(b)
<1>a. [c \in {} |-> 0] \in [{} -> Sessions] /\ [c \in {} |-> 0] = NoFile
  BY DEF NoFile
<1>1. CASE HearMeta
  <2>1. dn.ses \in Sessions
    BY <1>1, FrameFacts DEF HearMeta, Hears, AirTypes
  <2>2. QED
    BY <1>1, <1>a, <2>1, SizeAssumption DEF HearMeta, FileTypes, Sessions
<1>2. CASE /\ meta' = 0 /\ file' = NoFile /\ cur' = 0 /\ present' = {}
           /\ buf' = NoFile /\ have' = 0
  BY <1>2, <1>a, SizeAssumption DEF FileTypes
<1>3. CASE HearData
  <2>1. /\ meta # 0 /\ dn.ses \in Sessions /\ dn.seq \in Nat
        /\ meta' = meta
    BY <1>3, FrameFacts DEF HearData, Hears, AirTypes
  <2> DEFINE b == dn.seq \div BlockSize
  <2>2. b \in Nat
    BY <2>1, BlockOfNat
  <2>3. /\ Turned(b).file \in [Chunks(meta) -> 0..Len(Size)]
        /\ Turned(b).have \in Nat
        /\ Turned(b).present \subseteq Chunks(meta)
        /\ Turned(b).buf \in
             [IF Buffered THEN Turned(b).present ELSE {} -> Sessions]
    BY <2>1, <2>2, TurnedTypes
  <2>4. cur' \in Nat /\ present' \subseteq Chunks(meta) /\ have' \in Nat
    BY <1>3, <2>2, <2>3 DEF HearData
  <2>5. file' \in [Chunks(meta) -> 0..Len(Size)]
    BY <1>3, <2>1, <2>3 DEF HearData, Written, Sessions
  <2>6. buf' \in [IF Buffered THEN present' ELSE {} -> Sessions]
    <3>1. CASE dn.seq \in Chunks(meta) /\ Buffered
      <4>1. /\ present' = Turned(b).present \cup {dn.seq}
            /\ buf' = [c \in present' |->
                         IF c = dn.seq THEN dn.ses ELSE Turned(b).buf[c]]
        BY <1>3, <3>1 DEF HearData
      <4>2. \A c \in Turned(b).present : Turned(b).buf[c] \in Sessions
        BY <2>3, <3>1
      <4>3. QED
        BY <2>1, <3>1, <4>1, <4>2
    <3>2. CASE ~(dn.seq \in Chunks(meta) /\ Buffered)
      BY <1>3, <2>3, <3>2 DEF HearData
    <3>3. QED
      BY <3>1, <3>2
  <2>7. QED
    BY <2>1, <2>4, <2>5, <2>6 DEF FileTypes, Buffered
<1>4. CASE HearEob
  <2>1. meta # 0 /\ dn.block \in Nat /\ meta' = meta
    BY <1>4, FrameFacts DEF HearEob, Hears, AirTypes
  <2>2. QED
    BY <1>4, <2>1, TurnedTypes DEF HearEob, FileTypes, Buffered
<1>5. CASE HearFin
  <2>1. meta # 0 /\ UNCHANGED <<meta, cur, present, buf>>
    BY <1>5 DEF HearFin
  <2>2. QED
    BY <1>5, <2>1, FlushedTypes DEF HearFin, FileTypes, Buffered
<1>6. CASE UNCHANGED <<meta, cur, present, buf, have, file>>
  BY <1>6 DEF FileTypes, Buffered
<1>7. \/ HearMeta \/ HearData \/ HearEob \/ HearFin
      \/ /\ meta' = 0 /\ file' = NoFile /\ cur' = 0 /\ present' = {}
         /\ buf' = NoFile /\ have' = 0
      \/ UNCHANGED <<meta, cur, present, buf, have, file>>
  BY DEF Next, Send, Hear, Air, vars, rxVars, senderVars, Return,
     StartImage, SendMeta, FirstBlock, SendChunk, SendEob, TakeStat,
     MissStat, SendFin, Finish, SenderAborts, SendReply, Deadline,
     ReceiverResets, DnLost, UpLost, DnUnheard, UpUnheard,
     HearMetaRefused, HearMetaAgain, HearNothing
<1>8. QED
  BY <1>1, <1>2, <1>3, <1>4, <1>5, <1>6, <1>7

LEMMA LastTypesStep ==
  ASSUME FileTypes, LastTypes, [Next]_vars
  PROVE  LastTypes'
<1>1. CASE UNCHANGED last
  BY <1>1 DEF LastTypes
<1>2. CASE \E r \in {"COMPLETE", "INCOMPLETE", "TIMEOUT"} : Return(r)
  BY <1>2 DEF Return, LastTypes, FileTypes, Held
<1>3. UNCHANGED last
      \/ \E r \in {"COMPLETE", "INCOMPLETE", "TIMEOUT"} : Return(r)
  BY DEF Next, Send, Hear, Air, vars, rxVars, senderVars,
     StartImage, SendMeta, FirstBlock, SendChunk, SendEob, TakeStat,
     MissStat, SendFin, Finish, SenderAborts, SendReply, Deadline,
     ReceiverResets, DnLost, UpLost, DnUnheard, UpUnheard, HearMeta,
     HearMetaRefused, HearMetaAgain, HearData, HearEob, HearFin, HearNothing
<1>4. QED
  BY <1>1, <1>2, <1>3

LEMMA TypeInvHolds == Spec => []TypeInv
<1>1. Init => TypeInv
  BY TypeInit
<1>2. TypeInv /\ [Next]_vars => TypeInv'
  <2> SUFFICES ASSUME TypeInv, [Next]_vars PROVE TypeInv'
    OBVIOUS
  <2>1. SenderInv /\ AirTypes /\ FileTypes /\ LastTypes
    BY DEF TypeInv, TypeOK, SenderInv
  <2>2. SenderInv' /\ AirTypes' /\ FileTypes' /\ LastTypes'
    BY <2>1, SenderTypesStep, AirTypesStep, FileTypesStep, LastTypesStep
  <2>3. QED
    BY <2>2 DEF TypeInv, TypeOK, SenderInv
<1>3. QED
  BY <1>1, <1>2, PTL DEF Spec

\* Every variable of the session keeps its type, on any number of images of
\* any size, with every fault of the model.
THEOREM TypesHold == Spec => []TypeOK
<1>1. TypeInv => TypeOK
  BY DEF TypeInv
<1>2. QED
  BY <1>1, TypeInvHolds, PTL

(***************************************************************************)
(* After a FIN everything is in the file.  Without a block buffer the      *)
(* bitmap only ever names chunks that are stored; with one it does so once *)
(* flush_block() has run for the FIN, and nothing is heard until the       *)
(* FINACK is out.                                                          *)
(***************************************************************************)
PresentStored == \A c \in present : file[c] # 0
FlushInv ==
  /\ meta # 0 /\ ~Buffered => PresentStored
  /\ meta # 0 /\ reply.type = "FINACK" => PresentStored
  /\ FinWritesOut

LEMMA FlushData ==
  ASSUME AirTypes, FileTypes, FlushInv, HearData
  PROVE  FlushInv'
<1> DEFINE b == dn.seq \div BlockSize
           t == Turned(b)
<1>1. /\ meta # 0 /\ meta' = meta /\ UNCHANGED <<reply, last>>
      /\ reply = None /\ dn.ses \in Sessions /\ b \in Nat
  BY FrameFacts, BlockOfNat DEF HearData, Hears, AirTypes
<1>2. FinWritesOut' /\ reply'.type # "FINACK" /\ Buffered' = Buffered
  BY <1>1 DEF FlushInv, FinWritesOut, None, Buffered
<1>3. SUFFICES ASSUME ~Buffered PROVE PresentStored'
  BY <1>2 DEF FlushInv
<1>4. \A c \in t.present : t.file[c] # 0
  BY <1>1, <1>3 DEF Turned, FlushInv, PresentStored
<1>5. DOMAIN t.file = Chunks(meta)
  BY <1>1, TurnedTypes
<1>6. CASE dn.seq \in Chunks(meta) /\ dn.seq \notin t.present
  <2>1. /\ file' = [t.file EXCEPT ![dn.seq] = dn.ses]
        /\ present' = t.present \cup {dn.seq}
    BY <1>3, <1>6 DEF HearData, Fresh, Written
  <2>2. QED
    BY <1>1, <1>4, <1>5, <1>6, <2>1 DEF PresentStored, Sessions
<1>7. CASE ~(dn.seq \in Chunks(meta) /\ dn.seq \notin t.present)
  <2>1. file' = t.file /\ present' = t.present
    BY <1>3, <1>7 DEF HearData, Fresh
  <2>2. QED
    BY <1>4, <2>1 DEF PresentStored
<1>8. QED
  BY <1>6, <1>7

LEMMA FlushFin ==
  ASSUME FileTypes, FlushInv, HearFin
  PROVE  FlushInv'
<1>1. /\ meta # 0 /\ UNCHANGED <<meta, present, last>> /\ file' = FlushedFile
  BY DEF HearFin
<1>2. CASE Buffered
  <2>1. \A c \in present : buf[c] \in Sessions /\ c \in DOMAIN file
    BY <1>2 DEF FileTypes
  <2>2. \A c \in present : FlushedFile[c] = buf[c]
    BY <1>2, <2>1 DEF FlushedFile
  <2>3. QED
    BY <1>1, <2>1, <2>2
    DEF FlushInv, PresentStored, FinWritesOut, Sessions
<1>3. CASE ~Buffered
  BY <1>1, <1>3 DEF FlushedFile, FlushInv, PresentStored, FinWritesOut
<1>4. QED
  BY <1>2, <1>3

LEMMA FlushStep ==
  ASSUME AirTypes, FileTypes, FlushInv, [Next]_vars
  PROVE  FlushInv'
<1>1. CASE HearData
  BY <1>1, FlushData
<1>2. CASE HearFin
  BY <1>2, FlushFin
<1>3. CASE HearEob
  BY <1>3
  DEF HearEob, Stat, Turned, FlushInv, PresentStored, FinWritesOut, Buffered
<1>4. CASE HearMeta
  BY <1>4 DEF HearMeta, FlushInv, PresentStored, FinWritesOut
<1>5. CASE meta' = 0 /\ last' = last
  BY <1>5 DEF FlushInv, FinWritesOut, Buffered
<1>6. CASE SendReply /\ reply.type = "FINACK"
  <2>1. PresentStored
    BY <1>6 DEF FlushInv, PresentStored, FileTypes, NoFile
  <2>2. last'.file = file /\ last'.held = Held /\ meta' = 0
    BY <1>6 DEF SendReply, Return
  <2>3. QED
    BY <2>1, <2>2 DEF FlushInv, PresentStored, FinWritesOut, Held, Buffered
<1>7. CASE Deadline
  BY <1>7 DEF Deadline, Return, FlushInv, FinWritesOut, Buffered
<1>8. CASE /\ UNCHANGED <<meta, present, file, last>>
           /\ reply' = reply \/ reply' = None
  BY <1>8 DEF FlushInv, PresentStored, FinWritesOut, Buffered, None
<1>9. \/ HearData \/ HearFin \/ HearEob \/ HearMeta \/ Deadline
      \/ meta' = 0 /\ last' = last
      \/ SendReply /\ reply.type = "FINACK"
      \/ /\ UNCHANGED <<meta, present, file, last>>
         /\ reply' = reply \/ reply' = None
  BY DEF Next, Send, Hear, Air, vars, rxVars, senderVars,
     StartImage, SendMeta, FirstBlock, SendChunk, SendEob, TakeStat,
     MissStat, SendFin, Finish, SenderAborts, SendReply, ReceiverResets,
     DnLost, UpLost, DnUnheard, UpUnheard, HearMetaRefused, HearMetaAgain,
     HearNothing
<1>10. QED
  BY <1>1, <1>2, <1>3, <1>4, <1>5, <1>6, <1>7, <1>8, <1>9

\* Whatever was heard of an image, authenticated or not, is in the file when a
\* FIN ends the transfer (a session timeout gives no such promise: see the run
\* session_lost_fin).
THEOREM FinFlushes == Spec => []FinWritesOut
<1>1. Init => FlushInv
  BY DEF Init, FlushInv, FinWritesOut, NoResult
<1>2. TypeInv /\ FlushInv /\ [Next]_vars => FlushInv'
  BY FlushStep DEF TypeInv, TypeOK
<1>3. FlushInv => FinWritesOut
  BY DEF FlushInv
<1>4. QED
  BY <1>1, <1>2, <1>3, TypeInvHolds, PTL DEF Spec

(***************************************************************************)
(* A COMPLETE image is whole.  The argument goes through four facts.       *)
(*   AirInv: a frame on the air is from the part of the sender's program   *)
(*     that is waiting for it to be over.                                  *)
(*   OrderInv: the receiver is in no later session than the sender, and in *)
(*     the same session in no later block.                                 *)
(*   ReceiptInv: the bitmap, the buffer, the file and the counter of a     *)
(*     receiver that follows the sender agree - blocks still to come are   *)
(*     empty, so that leaving a block counts every chunk once.             *)
(*   VerdictInv: a FINACK waiting to be sent already tells the truth.      *)
(* Without authentication a frame of the next session can be heard in this *)
(* one (see the run session_mixed), hence the assumption.                  *)
(***************************************************************************)
Guarded == MacControl \/ Len(Size) = 1
Ours == meta # 0 /\ (meta = ses \/ MacData)
Stored == {c \in DOMAIN file : file[c] # 0}

AirInv ==
  /\ dn # None => dn.ses = ses
  /\ dn.type = "META" => phase = "meta"
  /\ dn.type = "DATA" => /\ phase \in {"data", "eob"}
                         /\ dn.seq \in BlockChunks(ses, blk)
  /\ dn.type = "EOB" => phase = "stat" /\ dn.block = blk
  /\ dn.type = "FIN" => phase = "finack"
  /\ phase = "data" => todo \subseteq BlockChunks(ses, blk)

OrderInv ==
  /\ meta <= ses
  /\ meta # 0 /\ meta = ses =>
       /\ phase = "meta" => cur = 0
       /\ phase \in {"data", "eob", "stat"} => cur <= blk

ReceiptInv ==
  Ours =>
    /\ \A c \in Chunks(meta) : file[c] \in {0, meta}
    /\ Buffered => \A c \in present : buf[c] = meta
    /\ present \subseteq BlockChunks(meta, cur)
    /\ have = Cardinality(Stored)
    /\ \A c \in Chunks(meta) : c \div BlockSize > cur => file[c] = 0
    /\ ~Buffered => present = {c \in BlockChunks(meta, cur) : file[c] # 0}
    /\ Buffered /\ reply.type # "FINACK" =>
         \A c \in BlockChunks(meta, cur) : file[c] = 0

VerdictInv ==
  /\ reply.type = "FINACK" /\ reply.status = 0 =>
       \A c \in Chunks(meta) : file[c] = meta
  /\ CompleteIsWhole

SafetyInv == TypeInv /\ AirInv /\ OrderInv /\ ReceiptInv /\ VerdictInv

LEMMA SafetyInit == Init => SafetyInv
<1> SUFFICES ASSUME Init PROVE SafetyInv
  OBVIOUS
<1>1. AirInv
  BY DEF Init, AirInv, None
<1>2. OrderInv
  BY DEF Init, OrderInv
<1>3. ReceiptInv
  BY DEF Init, ReceiptInv, Ours
<1>4. VerdictInv
  BY DEF Init, VerdictInv, CompleteIsWhole, NoResult, None
<1>5. QED
  BY <1>1, <1>2, <1>3, <1>4, TypeInit DEF SafetyInv

\* What the sender does to its own part of AirInv.
LEMMA AirInvStep ==
  ASSUME SenderInv, AirInv, [Next]_vars
  PROVE  AirInv'
<1> USE DEF None
<1>1. CASE StartImage
  BY <1>1 DEF StartImage, AirInv
<1>2. CASE SendMeta
  BY <1>2 DEF SendMeta, AirInv, Meta
<1>3. ASSUME dn = None, dn' = None, ses' = ses, phase # "idle",
             NEW b \in Nat, EnterBlock(b)
      PROVE  AirInv'
  BY <1>3 DEF EnterBlock, AirInv, BlockChunks
<1>4. CASE FirstBlock
  BY <1>3, <1>4 DEF FirstBlock
<1>5. CASE SendChunk
  <2>1. /\ phase = "data" /\ phase' \in {"data", "eob"} /\ ses' = ses
        /\ blk' = blk /\ todo' \subseteq todo
        /\ \E c \in todo : dn' = Data(ses, c)
    BY <1>5 DEF SendChunk
  <2>2. todo \subseteq BlockChunks(ses, blk)
    BY <2>1 DEF AirInv
  <2>3. BlockChunks(ses, blk)' = BlockChunks(ses, blk)
    BY <2>1 DEF BlockChunks
  <2>4. QED
    BY <2>1, <2>2, <2>3 DEF AirInv, Data
<1>6. CASE SendEob
  BY <1>6 DEF SendEob, AirInv, Eob
<1>7. CASE TakeStat
  <2>1. CASE EnterBlock(blk + 1)
    BY <1>3, <1>7, <2>1 DEF TakeStat, SenderInv, SenderTypes
  <2>2. CASE ~EnterBlock(blk + 1)
    BY <1>7, <2>2 DEF TakeStat, AirInv, BlockChunks
  <2>3. QED
    BY <2>1, <2>2
<1>8. CASE MissStat
  <2>1. CASE EobsLeft
    BY <1>8, <2>1 DEF MissStat, AirInv
  <2>2. CASE ~EobsLeft
    BY <1>3, <1>8, <2>2 DEF MissStat, SenderInv, SenderTypes
  <2>3. QED
    BY <2>1, <2>2
<1>9. CASE SendFin
  BY <1>9 DEF SendFin, AirInv, Fin
<1>10. CASE Finish \/ SenderAborts
  BY <1>10 DEF Finish, SenderAborts, AirInv
<1>11. CASE UNCHANGED senderVars /\ dn' \in {dn, None}
  BY <1>11 DEF senderVars, AirInv, BlockChunks, Chunks
<1>12. \/ Send \/ SenderAborts
       \/ UNCHANGED senderVars /\ dn' \in {dn, None}
  BY DEF Hears, Next, Hear, Air, vars, SendReply, Deadline, ReceiverResets,
     DnLost, UpLost, DnUnheard, UpUnheard, HearMeta, HearMetaRefused,
     HearMetaAgain, HearData, HearEob, HearFin, HearNothing
<1>13. QED
  BY <1>1, <1>2, <1>4, <1>5, <1>6, <1>7, <1>8, <1>9, <1>10, <1>11, <1>12
  DEF Send

\* Only the session being sent is heard beyond its METAs.
LEMMA HeardIsCurrent ==
  ASSUME Guarded, SenderInv, FileTypes, AirInv, OrderInv, meta # 0
  PROVE  /\ Hears("EOB") \/ Hears("FIN") => meta = ses
         /\ Hears("DATA") /\ Ours => meta = ses
<1>1. Len(Size) = 1 => meta = ses
  BY DEF SenderInv, SenderTypes, FileTypes, OrderInv
<1>2. ASSUME NEW t \in {"DATA", "EOB", "FIN"}, Hears(t)
      PROVE  dn.ses = ses /\ dn.type = t
  BY <1>2 DEF Hears, AirInv, None
<1>3. MacControl /\ (Hears("EOB") \/ Hears("FIN")) => meta = ses
  BY <1>2 DEF Hears, Authentic
<1>4. MacControl /\ MacData /\ Hears("DATA") => meta = ses
  BY <1>2 DEF Hears, Authentic
<1>5. QED
  BY <1>1, <1>3, <1>4, ModeAssumption DEF Guarded, Ours

LEMMA OrderInvStep ==
  ASSUME Guarded, SenderInv, AirTypes, FileTypes, AirInv, OrderInv, [Next]_vars
  PROVE  OrderInv'
<1>a. meta \in Nat /\ ses \in Nat /\ blk \in Nat /\ cur \in Nat
  BY SizeAssumption DEF SenderInv, SenderTypes, FileTypes
<1>1. CASE StartImage
  BY <1>1, <1>a DEF StartImage, OrderInv, rxVars
<1>2. CASE FirstBlock
  BY <1>2, <1>a DEF FirstBlock, EnterBlock, OrderInv, rxVars
<1>3. CASE SendMeta \/ SendChunk \/ SendEob \/ SendFin \/ Finish \/ SenderAborts
  BY <1>3, <1>a DEF SendMeta, SendChunk, SendEob, SendFin, Finish,
     SenderAborts, OrderInv, rxVars
<1>4. CASE TakeStat \/ MissStat
  <2>1. /\ phase = "stat" /\ UNCHANGED <<ses, meta, cur>>
        /\ \/ phase' \in {"data", "eob"} /\ blk' = blk
           \/ EnterBlock(blk + 1)
    BY <1>4 DEF TakeStat, MissStat, rxVars
  <2>2. CASE phase' \in {"data", "eob"} /\ blk' = blk
    BY <2>1, <2>2, <1>a DEF OrderInv
  <2>3. CASE EnterBlock(blk + 1)
    BY <2>1, <2>3, <1>a DEF OrderInv, EnterBlock
  <2>4. QED
    BY <2>1, <2>2, <2>3
<1>5. CASE HearMeta
  <2>1. dn.ses = ses /\ phase = "meta"
    BY <1>5 DEF HearMeta, Hears, AirInv, None
  <2>2. QED
    BY <1>5, <2>1, <1>a DEF HearMeta, OrderInv, senderVars
<1>6. CASE HearData
  <2>1. meta # 0 /\ meta' = meta /\ UNCHANGED senderVars
        /\ cur' = dn.seq \div BlockSize
    BY <1>6 DEF HearData
  <2>2. dn.ses = ses /\ phase \in {"data", "eob"} /\ dn.seq \div BlockSize = blk
    BY <1>6 DEF HearData, Hears, AirInv, None, BlockChunks
  <2>3. QED
    BY <2>1, <2>2, <1>a DEF OrderInv, senderVars
<1>7. CASE HearEob
  <2>1. meta # 0 /\ meta' = meta /\ UNCHANGED senderVars /\ cur' = dn.block
    BY <1>7 DEF HearEob
  <2>2. phase = "stat" /\ dn.block = blk
    BY <1>7 DEF HearEob, Hears, AirInv
  <2>3. QED
    BY <2>1, <2>2, <1>a DEF OrderInv, senderVars
<1>8. CASE UNCHANGED senderVars /\ (meta' = 0 \/ UNCHANGED <<meta, cur>>)
  BY <1>8, <1>a DEF OrderInv, senderVars
<1>9. \/ Send \/ SenderAborts \/ HearMeta \/ HearData \/ HearEob
      \/ UNCHANGED senderVars /\ (meta' = 0 \/ UNCHANGED <<meta, cur>>)
  BY DEF Next, Hear, Air, vars, rxVars, SendReply, Deadline, ReceiverResets,
     Return, DnLost, UpLost, DnUnheard, UpUnheard, HearMetaRefused,
     HearMetaAgain, HearFin, HearNothing
<1>10. QED
  BY <1>1, <1>2, <1>3, <1>4, <1>5, <1>6, <1>7, <1>8, <1>9 DEF Send

\* The chunks a file holds.
StoredIn(f) == {c \in Chunks(meta) : f[c] # 0}

LEMMA StoredFinite ==
  ASSUME FileTypes, meta # 0, NEW f
  PROVE  /\ IsFiniteSet(StoredIn(f)) /\ Cardinality(StoredIn(f)) \in Nat
         /\ StoredIn(f) \subseteq Chunks(meta)
         /\ Cardinality(StoredIn(f)) = Size[meta] => StoredIn(f) = Chunks(meta)
<1>1. meta \in Sessions
  BY DEF FileTypes, Sessions
<1>2. IsFiniteSet(Chunks(meta)) /\ Cardinality(Chunks(meta)) = Size[meta]
  BY <1>1, ChunkFacts
<1>3. StoredIn(f) \subseteq Chunks(meta)
  BY DEF StoredIn
<1>4. QED
  BY <1>2, <1>3, FS_Subset, FS_CardinalityType

\* What a receiver in the sender's session knows, for flush_block().
Following == FileTypes /\ ReceiptInv /\ Ours /\ reply.type # "FINACK"

LEMMA FlushFacts ==
  ASSUME Following
  PROVE  /\ \A c \in Chunks(meta) : FlushedFile[c] \in {0, meta}
         /\ FlushedHave = Cardinality(StoredIn(FlushedFile))
         /\ \A c \in Chunks(meta) :
              c \div BlockSize > cur => FlushedFile[c] = 0
<1>a. /\ DOMAIN file = Chunks(meta) /\ meta # 0 /\ present \subseteq Chunks(meta)
      /\ \A c \in Chunks(meta) : file[c] \in {0, meta}
      /\ Buffered => \A c \in present : buf[c] = meta
      /\ present \subseteq BlockChunks(meta, cur)
      /\ have = Cardinality(StoredIn(file))
      /\ \A c \in Chunks(meta) : c \div BlockSize > cur => file[c] = 0
      /\ Buffered => \A c \in BlockChunks(meta, cur) : file[c] = 0
  BY DEF Following, FileTypes, ReceiptInv, Ours, Stored, StoredIn
<1>1. CASE ~Buffered
  <2>1. FlushedFile = file /\ FlushedHave = have
    BY <1>1 DEF FlushedFile, FlushedHave
  <2>2. QED
    BY <1>a, <2>1
<1>2. CASE Buffered
  <2>1. FlushedHave = have + Cardinality(present)
    BY <1>2 DEF FlushedHave
  <2>2. \A c \in Chunks(meta) :
          FlushedFile[c] = IF c \in present THEN meta ELSE file[c]
    BY <1>a, <1>2 DEF FlushedFile
  <2>3. StoredIn(FlushedFile) = StoredIn(file) \cup present
    BY <1>a, <2>2 DEF StoredIn
  <2>4. StoredIn(file) \cap present = {}
    BY <1>a, <1>2 DEF StoredIn
  <2>5. /\ IsFiniteSet(StoredIn(file)) /\ Cardinality(StoredIn(file)) \in Nat
        /\ IsFiniteSet(present) /\ Cardinality(present) \in Nat
    BY <1>a, StoredFinite, HeldFinite DEF Following
  <2>6. Cardinality(StoredIn(FlushedFile)) =
          Cardinality(StoredIn(file)) + Cardinality(present) - Cardinality({})
    BY <2>3, <2>4, <2>5, FS_Union
  <2>7. FlushedHave = Cardinality(StoredIn(FlushedFile))
    BY <1>a, <2>1, <2>5, <2>6, FS_EmptySet
  <2>8. \A c \in present : c \div BlockSize = cur
    BY <1>a DEF BlockChunks
  <2>9. \A c \in Chunks(meta) :
          c \div BlockSize > cur => FlushedFile[c] = 0
    <3>1. cur \in Nat
      BY DEF Following, FileTypes
    <3>2. QED
      BY <1>a, <2>2, <2>8, <3>1
  <2>10. QED
    BY <1>a, <2>2, <2>7, <2>9
<1>3. QED
  BY <1>1, <1>2

LEMMA TurnFacts ==
  ASSUME Following, NEW b \in Nat, cur <= b
  PROVE  LET t == Turned(b) IN
         /\ \A c \in Chunks(meta) : t.file[c] \in {0, meta}
         /\ Buffered => \A c \in t.present : t.buf[c] = meta
         /\ t.present \subseteq BlockChunks(meta, b)
         /\ t.have = Cardinality(StoredIn(t.file))
         /\ \A c \in Chunks(meta) : c \div BlockSize > b => t.file[c] = 0
         /\ ~Buffered => t.present = {c \in BlockChunks(meta, b) : t.file[c] # 0}
         /\ Buffered => \A c \in BlockChunks(meta, b) : t.file[c] = 0
<1>a. cur \in Nat /\ meta # 0 /\ DOMAIN file = Chunks(meta)
  BY DEF Following, FileTypes, Ours
<1>1. CASE b = cur
  <2>1. /\ Turned(b).file = file /\ Turned(b).have = have
        /\ Turned(b).present = present /\ Turned(b).buf = buf
    BY <1>1 DEF Turned
  <2>2. have = Cardinality(StoredIn(file))
    BY <1>a DEF Following, ReceiptInv, Stored, StoredIn
  <2>3. QED
    BY <1>1, <2>1, <2>2 DEF Following, ReceiptInv
<1>2. CASE b # cur
  <2>1. /\ Turned(b).file = FlushedFile /\ Turned(b).have = FlushedHave
        /\ Turned(b).present = {}
    BY <1>2 DEF Turned
  <2>2. \A c \in Chunks(meta) : c \div BlockSize >= b => FlushedFile[c] = 0
    <3>1. SUFFICES ASSUME NEW c \in Chunks(meta), c \div BlockSize >= b
                   PROVE  FlushedFile[c] = 0
      OBVIOUS
    <3>2. c \div BlockSize > cur
      <4>1. c \in Nat
        BY <1>a, ChunkFacts DEF Following, FileTypes, Sessions
      <4>2. c \div BlockSize \in Nat
        BY <4>1, BlockOfNat
      <4>3. QED
        BY <1>a, <1>2, <3>1, <4>2
    <3>3. QED
      BY <3>2, FlushFacts
  <2>3. \A c \in Chunks(meta) : c \div BlockSize \in Nat
    BY <1>a, ChunkFacts, BlockOfNat DEF Following, FileTypes, Sessions
  <2>4. \A c \in BlockChunks(meta, b) : FlushedFile[c] = 0
    BY <2>2 DEF BlockChunks
  <2>5. \A c \in Chunks(meta) : c \div BlockSize > b => FlushedFile[c] = 0
    BY <2>2, <2>3
  <2>6. QED
    BY <2>1, <2>4, <2>5, FlushFacts
<1>3. QED
  BY <1>1, <1>2

\* HearData: the chunk goes where Fresh, Written and the buffer put it, and
\* the counter follows.
LEMMA DataReceipt ==
  ASSUME Guarded, SenderInv, AirTypes, FileTypes, AirInv, OrderInv,
         ReceiptInv, HearData
  PROVE  ReceiptInv'
<1> DEFINE b == dn.seq \div BlockSize
           t == Turned(b)
<1>1. /\ meta # 0 /\ meta' = meta /\ UNCHANGED <<ses, reply>> /\ cur' = b
      /\ reply = None /\ Hears("DATA")
  BY DEF HearData, Hears, senderVars
<1>2. SUFFICES ASSUME Ours PROVE ReceiptInv'
  BY <1>1 DEF ReceiptInv, Ours
<1>3. meta = ses
  BY <1>1, <1>2, HeardIsCurrent
<1>4. /\ dn.ses = meta /\ dn.seq \in BlockChunks(meta, blk)
      /\ phase \in {"data", "eob"} /\ dn.seq \in Chunks(meta) /\ b = blk
  BY <1>1, <1>3 DEF AirInv, Hears, None, BlockChunks
<1>5. cur <= b /\ b \in Nat
  BY <1>1, <1>3, <1>4 DEF OrderInv, SenderInv, SenderTypes
<1>6. Following
  BY <1>1, <1>2 DEF Following, None
<1>7. /\ \A c \in Chunks(meta) : t.file[c] \in {0, meta}
      /\ Buffered => \A c \in t.present : t.buf[c] = meta
      /\ t.present \subseteq BlockChunks(meta, b)
      /\ t.have = Cardinality(StoredIn(t.file))
      /\ \A c \in Chunks(meta) : c \div BlockSize > b => t.file[c] = 0
      /\ ~Buffered => t.present = {c \in BlockChunks(meta, b) : t.file[c] # 0}
      /\ Buffered => \A c \in BlockChunks(meta, b) : t.file[c] = 0
  BY <1>5, <1>6, TurnFacts
<1>8. DOMAIN t.file = Chunks(meta)
  BY <1>1, <1>5, TurnedTypes
<1>9. present' = t.present \cup {dn.seq} /\ dn.seq \in BlockChunks(meta, b)
  BY <1>4 DEF HearData
<1>10. /\ Ours' /\ Chunks(meta)' = Chunks(meta) /\ b \in Nat
       /\ BlockChunks(meta, cur)' = BlockChunks(meta, b)
  BY <1>1, <1>2, <1>5 DEF Ours, Chunks, BlockChunks
<1>11. CASE Buffered
  <2>1. /\ file' = t.file /\ have' = t.have
        /\ buf' = [c \in present' |-> IF c = dn.seq THEN dn.ses ELSE t.buf[c]]
    BY <1>4, <1>11 DEF HearData
  <2>2. \A c \in present' : buf'[c] = meta
    BY <1>4, <1>7, <1>9, <1>11, <2>1
  <2>3. have' = Cardinality(Stored')
    BY <1>7, <1>8, <2>1 DEF Stored, StoredIn
  <2>4. QED
    BY <1>1, <1>7, <1>9, <1>10, <1>11, <2>1, <2>2, <2>3 DEF ReceiptInv, Buffered
<1>12. CASE ~Buffered /\ dn.seq \in t.present
  <2>1. file' = t.file /\ have' = t.have /\ present' = t.present
    BY <1>4, <1>9, <1>12 DEF HearData, Fresh
  <2>2. have' = Cardinality(Stored')
    BY <1>7, <1>8, <2>1 DEF Stored, StoredIn
  <2>3. QED
    BY <1>1, <1>7, <1>10, <1>12, <2>1, <2>2 DEF ReceiptInv, Buffered
<1>13. CASE ~Buffered /\ dn.seq \notin t.present
  <2>1. /\ file' = [t.file EXCEPT ![dn.seq] = meta]
        /\ have' = t.have + 1
    BY <1>4, <1>13 DEF HearData, Fresh, Written
  <2>2. t.file[dn.seq] = 0
    BY <1>7, <1>9, <1>13
  <2>3. Stored' = StoredIn(t.file) \cup {dn.seq}
    BY <1>1, <1>4, <1>8, <2>1 DEF Stored, StoredIn
  <2>4. dn.seq \notin StoredIn(t.file)
    BY <2>2 DEF StoredIn
  <2>5. have' = Cardinality(Stored')
    <3>1. /\ IsFiniteSet(StoredIn(t.file))
          /\ Cardinality(StoredIn(t.file)) \in Nat
      BY <1>1, StoredFinite
    <3>2. Cardinality(StoredIn(t.file) \cup {dn.seq}) =
            IF dn.seq \in StoredIn(t.file) THEN Cardinality(StoredIn(t.file))
            ELSE Cardinality(StoredIn(t.file)) + 1
      BY <3>1, FS_AddElement, Zenon
    <3>3. QED
      BY <1>7, <2>1, <2>3, <2>4, <3>2
  <2>6. \A c \in Chunks(meta) : file'[c] = IF c = dn.seq THEN meta ELSE t.file[c]
    BY <1>8, <2>1
  <2>7. \A c \in Chunks(meta) : c \div BlockSize > b => file'[c] = 0
    BY <1>5, <1>7, <2>6
  <2>8. present' = {c \in BlockChunks(meta, b) : file'[c] # 0}
    BY <1>1, <1>7, <1>9, <1>13, <2>6 DEF BlockChunks
  <2>9. QED
    BY <1>1, <1>7, <1>10, <1>13, <2>5, <2>6, <2>7, <2>8 DEF ReceiptInv, Buffered
<1>14. QED
  BY <1>11, <1>12, <1>13

LEMMA ReceiptInvStep ==
  ASSUME Guarded, SenderInv, AirTypes, FileTypes, AirInv, OrderInv,
         ReceiptInv, [Next]_vars
  PROVE  ReceiptInv'
<1>1. CASE StartImage
  <2>1. meta # ses' /\ UNCHANGED rxVars
    BY <1>1, SizeAssumption
    DEF StartImage, OrderInv, SenderInv, SenderTypes, FileTypes
  <2>2. Ours' => Ours
    BY <2>1 DEF Ours, rxVars
  <2>3. QED
    BY <2>1, <2>2 DEF ReceiptInv, rxVars, Stored, BlockChunks, Chunks, Buffered
<1>2. CASE UNCHANGED <<ses, rxVars>>
  BY <1>2 DEF ReceiptInv, Ours, rxVars, Stored, BlockChunks, Chunks, Buffered
<1>3. CASE HearMeta
  <2>1. /\ file' = [c \in Chunks(dn.ses) |-> 0] /\ present' = {}
        /\ have' = 0 /\ meta' = dn.ses /\ cur' = 0
    BY <1>3 DEF HearMeta
  <2>2. Stored' = {}
    BY <2>1 DEF Stored
  <2>3. have' = Cardinality(Stored')
    BY <2>1, <2>2, FS_EmptySet
  <2>4. /\ Chunks(meta)' = Chunks(dn.ses)
        /\ BlockChunks(meta, cur)' \subseteq Chunks(dn.ses)
    BY <2>1 DEF Chunks, BlockChunks
  <2>5. \A c \in Chunks(dn.ses) : file'[c] = 0
    BY <2>1
  <2>6. QED
    BY <2>1, <2>3, <2>4, <2>5 DEF ReceiptInv
<1>4. CASE meta' = 0
  BY <1>4 DEF ReceiptInv, Ours
<1>5. CASE HearData
  BY <1>5, DataReceipt
<1>6. CASE HearEob
  <2> DEFINE b == dn.block
             t == Turned(b)
  <2>1. /\ meta # 0 /\ meta' = meta /\ ses' = ses /\ cur' = b
        /\ reply = None /\ Hears("EOB")
        /\ present' = t.present /\ buf' = t.buf /\ file' = t.file
        /\ have' = t.have
    BY <1>6 DEF HearEob, Hears, senderVars
  <2>2. meta = ses
    BY <2>1, HeardIsCurrent
  <2>3. cur <= b /\ b \in Nat
    BY <2>1, <2>2 DEF AirInv, Hears, OrderInv, SenderInv, SenderTypes
  <2>4. Following
    BY <2>1, <2>2 DEF Following, Ours, None
  <2>5. /\ \A c \in Chunks(meta) : t.file[c] \in {0, meta}
        /\ Buffered => \A c \in t.present : t.buf[c] = meta
        /\ t.present \subseteq BlockChunks(meta, b)
        /\ t.have = Cardinality(StoredIn(t.file))
        /\ \A c \in Chunks(meta) : c \div BlockSize > b => t.file[c] = 0
        /\ ~Buffered => t.present = {c \in BlockChunks(meta, b) : t.file[c] # 0}
        /\ Buffered => \A c \in BlockChunks(meta, b) : t.file[c] = 0
    BY <2>3, <2>4, TurnFacts
  <2>6. have' = Cardinality(Stored')
    <3>1. DOMAIN t.file = Chunks(meta)
      BY <2>1, <2>3, TurnedTypes
    <3>2. Stored' = StoredIn(t.file)
      BY <2>1, <3>1 DEF Stored, StoredIn
    <3>3. QED
      BY <2>1, <2>5, <3>2
  <2>7. /\ Chunks(meta)' = Chunks(meta)
        /\ BlockChunks(meta, cur)' = BlockChunks(meta, b)
    BY <2>1 DEF Chunks, BlockChunks
  <2>8. QED
    BY <2>1, <2>5, <2>6, <2>7 DEF ReceiptInv, Buffered
<1>7. CASE HearFin
  <2>1. /\ meta # 0 /\ UNCHANGED <<meta, ses, cur, present, buf>>
        /\ reply = None /\ Hears("FIN") /\ reply'.type = "FINACK"
        /\ file' = FlushedFile /\ have' = FlushedHave
    BY <1>7 DEF HearFin, Hears, senderVars, Finack
  <2>2. meta = ses
    BY <2>1, HeardIsCurrent
  <2>3. Following /\ Ours
    BY <2>1, <2>2 DEF Following, Ours, None
  <2>4. /\ \A c \in Chunks(meta) : FlushedFile[c] \in {0, meta}
        /\ FlushedHave = Cardinality(StoredIn(FlushedFile))
        /\ \A c \in Chunks(meta) : c \div BlockSize > cur => FlushedFile[c] = 0
    BY <2>3, FlushFacts
  <2>5. have' = Cardinality(Stored')
    BY <2>1, <2>4, FlushedTypes DEF Stored, StoredIn
  <2>6. /\ Chunks(meta)' = Chunks(meta)
        /\ BlockChunks(meta, cur)' = BlockChunks(meta, cur)
    BY <2>1 DEF Chunks, BlockChunks
  <2>7. ~Buffered => FlushedFile = file
    BY DEF FlushedFile
  <2>8. QED
    BY <2>1, <2>3, <2>4, <2>5, <2>6, <2>7 DEF ReceiptInv, Buffered
<1>8. CASE /\ reply.type # "FINACK" /\ reply' = None
           /\ UNCHANGED <<ses, meta, cur, present, buf, have, file>>
  BY <1>8 DEF ReceiptInv, Ours, Stored, BlockChunks, Chunks, Buffered
<1>9. \/ StartImage \/ UNCHANGED <<ses, rxVars>> \/ HearMeta \/ meta' = 0
      \/ HearData \/ HearEob \/ HearFin
      \/ /\ reply.type # "FINACK" /\ reply' = None
         /\ UNCHANGED <<ses, meta, cur, present, buf, have, file>>
  BY DEF Next, Send, Hear, Air, vars, rxVars, senderVars, Return,
     SendMeta, FirstBlock, SendChunk, SendEob, TakeStat, MissStat, SendFin,
     Finish, SenderAborts, SendReply, Deadline, ReceiverResets, DnLost,
     UpLost, DnUnheard, UpUnheard, HearMetaRefused, HearMetaAgain, HearNothing
<1>10. QED
  BY <1>1, <1>2, <1>3, <1>4, <1>5, <1>6, <1>7, <1>8, <1>9

LEMMA VerdictInvStep ==
  ASSUME Guarded, SenderInv, AirTypes, FileTypes, AirInv, OrderInv,
         ReceiptInv, VerdictInv, [Next]_vars
  PROVE  VerdictInv'
<1>1. CASE HearFin
  <2>1. /\ meta # 0 /\ meta' = meta /\ last' = last /\ reply = None
        /\ file' = FlushedFile /\ Hears("FIN")
        /\ reply'.status = 0 => FlushedHave = Size[meta]
    BY <1>1 DEF HearFin, Hears, Finack, Complete
  <2>2. meta = ses
    BY <2>1, HeardIsCurrent
  <2>3. Following
    BY <2>1, <2>2 DEF Following, Ours, None
  <2>4. reply'.status = 0 => StoredIn(FlushedFile) = Chunks(meta)
    BY <2>1, <2>3, FlushFacts, StoredFinite
  <2>5. reply'.status = 0 => \A c \in Chunks(meta) : FlushedFile[c] = meta
    BY <2>3, <2>4, FlushFacts DEF StoredIn
  <2>6. CompleteIsWhole'
    BY <2>1 DEF VerdictInv, CompleteIsWhole, Chunks
  <2>7. QED
    BY <2>1, <2>5, <2>6 DEF VerdictInv, Chunks
<1>2. CASE SendReply /\ reply.type = "FINACK"
  <2>1. /\ reply' = None
        /\ Return(IF reply.status = 0 THEN "COMPLETE" ELSE "INCOMPLETE")
    BY <1>2 DEF SendReply
  <2>2. CASE reply.status = 0
    BY <1>2, <2>1, <2>2 DEF Return, VerdictInv, CompleteIsWhole, None, Chunks
  <2>3. CASE reply.status # 0
    BY <2>1, <2>3 DEF Return, VerdictInv, CompleteIsWhole, None
  <2>4. QED
    BY <2>2, <2>3
<1>3. CASE Deadline
  BY <1>3 DEF Deadline, TimedOut, Return, VerdictInv, CompleteIsWhole, None
<1>4. CASE UNCHANGED last /\ reply'.type # "FINACK"
  BY <1>4 DEF VerdictInv, CompleteIsWhole, Chunks
<1>5. CASE UNCHANGED <<last, reply, meta, file>>
  BY <1>5 DEF VerdictInv, CompleteIsWhole, Chunks
<1>a. HearEob => UNCHANGED last /\ reply'.type # "FINACK"
  BY DEF HearEob, Stat
<1>b. SendReply /\ reply.type # "FINACK" =>
        UNCHANGED last /\ reply'.type # "FINACK"
  BY DEF SendReply, None
<1>c. Send \/ SenderAborts \/ Air => UNCHANGED <<last, reply, meta, file>>
  BY DEF Send, Air, rxVars, StartImage, SendMeta, FirstBlock, SendChunk,
     SendEob, TakeStat, MissStat, SendFin, Finish, SenderAborts, DnLost,
     UpLost, DnUnheard, UpUnheard
<1>d. HearMeta \/ HearMetaRefused \/ HearData \/ ReceiverResets =>
        UNCHANGED last /\ reply'.type # "FINACK"
  BY DEF HearMeta, HearMetaRefused, HearData, ReceiverResets, Hears, None
<1>e. HearMetaAgain \/ HearNothing => UNCHANGED <<last, reply, meta, file>>
  BY DEF HearMetaAgain, HearNothing, rxVars
<1>f. UNCHANGED vars => UNCHANGED <<last, reply, meta, file>>
  BY DEF vars, rxVars
<1>g. \/ Send \/ SenderAborts \/ Air \/ UNCHANGED vars \/ SendReply \/ Deadline
      \/ HearMeta \/ HearMetaRefused \/ HearData \/ ReceiverResets
      \/ HearMetaAgain \/ HearNothing \/ HearEob \/ HearFin
  BY DEF Next, Hear
<1>6. \/ HearFin \/ Deadline
      \/ SendReply /\ reply.type = "FINACK"
      \/ UNCHANGED last /\ reply'.type # "FINACK"
      \/ UNCHANGED <<last, reply, meta, file>>
  BY <1>a, <1>b, <1>c, <1>d, <1>e, <1>f, <1>g
<1>7. QED
  BY <1>1, <1>2, <1>3, <1>4, <1>5, <1>6

LEMMA SafetyStep ==
  ASSUME Guarded, SafetyInv, [Next]_vars
  PROVE  SafetyInv'
<1>1. /\ SenderInv /\ AirTypes /\ FileTypes /\ LastTypes
      /\ AirInv /\ OrderInv /\ ReceiptInv /\ VerdictInv
  BY DEF SafetyInv, TypeInv, TypeOK, SenderInv
<1>2. SenderInv' /\ AirTypes' /\ FileTypes' /\ LastTypes'
  BY <1>1, SenderTypesStep, AirTypesStep, FileTypesStep, LastTypesStep
<1>3. AirInv' /\ OrderInv' /\ ReceiptInv' /\ VerdictInv'
  BY <1>1, AirInvStep, OrderInvStep, ReceiptInvStep, VerdictInvStep
<1>4. QED
  BY <1>2, <1>3 DEF SafetyInv, TypeInv, TypeOK, SenderInv

LEMMA SafetyHolds == Guarded /\ Spec => []SafetyInv
<1> SUFFICES ASSUME Guarded PROVE Spec => []SafetyInv
  OBVIOUS
<1>1. Init => SafetyInv
  BY SafetyInit
<1>2. SafetyInv /\ [Next]_vars => SafetyInv'
  BY SafetyStep
<1>3. QED
  BY <1>1, <1>2, PTL DEF Spec

\* With authenticated control frames, or when only one image is ever sent, a
\* transfer the receiver reports COMPLETE has every chunk of the announced
\* image in its file and no byte of another (chunks_have decides alone: the
\* CRC is never computed).
THEOREM CompleteWhole == Guarded /\ Spec => []CompleteIsWhole
<1>1. SafetyInv => CompleteIsWhole
  BY DEF SafetyInv, VerdictInv
<1>2. QED
  BY <1>1, SafetyHolds, PTL

\* chunks_have equals the number of chunks in storage, through every order of
\* repairs, losses and flushes, when DATA frames are authenticated or only one
\* image is ever sent.
THEOREM HaveCounts ==
  (MacData \/ Len(Size) = 1) /\ Spec => []HaveIsStored
<1> SUFFICES ASSUME MacData \/ Len(Size) = 1 PROVE Spec => []HaveIsStored
  OBVIOUS
<1>1. Guarded
  BY ModeAssumption DEF Guarded
<1>2. SafetyInv => HaveIsStored
  <2>1. SUFFICES ASSUME SafetyInv, meta # 0
                 PROVE  have = Cardinality(Stored)
    BY DEF HaveIsStored, Stored
  <2>2. ses \in 0..Len(Size) /\ meta \in 0..Len(Size) /\ meta <= ses
    BY <2>1 DEF SafetyInv, TypeInv, TypeOK, SenderTypes, FileTypes, OrderInv
  <2>3. Len(Size) = 1 => meta = ses
    BY <2>1, <2>2
  <2>4. Ours
    BY <2>1, <2>3 DEF Ours
  <2>5. QED
    BY <2>1, <2>4 DEF SafetyInv, ReceiptInv
<1>3. QED
  BY <1>1, <1>2, SafetyHolds, PTL

(***************************************************************************)
(* The sender's side of the same promise.  AckInv: a FINACK is on the air  *)
(* only after the receiver returned, so `last` is the image it speaks of   *)
(* until the sender starts the next one.                                   *)
(***************************************************************************)
LastIsWhole(s) == last.ses = s /\ \A c \in Chunks(s) : last.file[c] = s

AckInv ==
  /\ phase = "idle" => dn = None
  /\ reply.type = "FINACK" => reply.ses = meta /\ meta # 0
  /\ up.type = "FINACK" =>
       /\ meta = 0 /\ reply = None
       /\ up.status = 0 => LastIsWhole(up.ses)
  /\ outcome = "acked" =>
       phase = "idle" /\ meta = 0 /\ reply = None /\ LastIsWhole(ses)

LEMMA AckInit == Init => AckInv
  BY DEF Init, AckInv, None

\* A FINACK that passes the sender's authentication is of its own session.
LEMMA FinackIsOurs ==
  ASSUME Guarded, SafetyInv, ses \in Sessions, up.type = "FINACK",
         Authentic(up, ses)
  PROVE  up.ses = ses
<1>1. up.ses \in Sessions
  BY DEF SafetyInv, TypeInv, TypeOK, AirTypes, Replies, None
<1>2. CASE MacControl
  BY <1>2 DEF Authentic
<1>3. CASE Len(Size) = 1
  BY <1>1, <1>3 DEF Sessions
<1>4. QED
  BY <1>2, <1>3 DEF Guarded

LEMMA AckInvStep ==
  ASSUME Guarded, SafetyInv, AckInv, [Next]_vars
  PROVE  AckInv'
<1> USE DEF AckInv
<1>a. UNCHANGED last => \A s : LastIsWhole(s)' = LastIsWhole(s)
  BY DEF LastIsWhole, Chunks
<1>1. CASE StartImage
  BY <1>1, <1>a DEF StartImage, rxVars
<1>2. CASE \/ SendMeta \/ FirstBlock \/ SendChunk \/ SendEob
           \/ TakeStat \/ MissStat \/ SendFin
  <2>1. /\ phase # "idle" /\ phase' # "idle"
        /\ UNCHANGED <<ses, outcome, rxVars>>
        /\ up' \in {up, None}
    BY <1>2 DEF EnterBlock, SendMeta, FirstBlock, SendChunk, SendEob,
       TakeStat, MissStat, SendFin
  <2>2. QED
    BY <2>1, <1>a DEF rxVars, None
<1>3. CASE Finish
  <2>1. /\ dn' = None /\ UNCHANGED <<ses, rxVars>> /\ up' = None
        /\ phase' = "idle" /\ phase = "finack"
        /\ outcome' = "acked" =>
             up.type = "FINACK" /\ Authentic(up, ses) /\ up.status = 0
    BY <1>3 DEF Finish
  <2>2. up.type = "FINACK" /\ Authentic(up, ses) => up.ses = ses
    <3>1. ses \in Sessions
      BY <2>1 DEF SafetyInv, TypeInv, TypeOK, SenderTypes, Sessions
    <3>2. QED
      BY <3>1, FinackIsOurs
  <2>3. outcome' = "acked" => LastIsWhole(ses)
    BY <2>1, <2>2
  <2>4. QED
    BY <2>1, <2>3, <1>a DEF rxVars, None
<1>4. CASE SenderAborts
  BY <1>4, <1>a DEF SenderAborts, rxVars
<1>5. CASE Hear
  <2>1. /\ dn # None /\ dn' = None /\ reply = None /\ up = None
        /\ UNCHANGED <<senderVars, up, last>>
        /\ reply'.type = "FINACK" => reply'.ses = meta' /\ meta' # 0
    BY <1>5 DEF Hear, Hears, HearMeta, HearMetaRefused, HearMetaAgain, HearData,
       HearEob, HearFin, HearNothing, rxVars, None, Stat, Finack
  <2>2. QED
    BY <2>1 DEF senderVars, None
<1>6. CASE SendReply
  <2>1. /\ reply # None /\ up' = reply /\ reply' = None
        /\ UNCHANGED senderVars /\ dn' = dn
    BY <1>6 DEF SendReply
  <2>2. CASE reply.type = "FINACK"
    <3>1. meta' = 0 /\ last'.ses = meta /\ last'.file = file /\ reply.ses = meta
      BY <1>6, <2>2 DEF SendReply, Return
    <3>2. reply.status = 0 => \A c \in Chunks(meta) : file[c] = meta
      BY <2>2 DEF SafetyInv, VerdictInv
    <3>3. up'.status = 0 => LastIsWhole(up.ses)'
      BY <2>1, <3>1, <3>2 DEF LastIsWhole, Chunks
    <3>4. QED
      BY <2>1, <3>1, <3>3 DEF senderVars, None
  <2>3. CASE reply.type # "FINACK"
    BY <2>1, <2>3 DEF senderVars, None
  <2>4. QED
    BY <2>2, <2>3
<1>7. CASE Deadline
  <2>1. meta # 0 /\ reply = None /\ UNCHANGED <<senderVars, dn, up, reply>>
    BY <1>7 DEF Deadline, TimedOut
  <2>2. QED
    BY <2>1 DEF senderVars, None
<1>8. CASE ReceiverResets
  BY <1>8, <1>a DEF ReceiverResets, senderVars, None
<1>9. CASE Air \/ UNCHANGED vars
  <2>1. /\ UNCHANGED <<senderVars, rxVars>>
        /\ dn' \in {dn, None} /\ up' \in {up, None}
    BY <1>9 DEF Air, DnLost, UpLost, DnUnheard, UpUnheard, UpOnceListening, vars
  <2>2. QED
    BY <2>1, <1>a DEF senderVars, rxVars, None
<1>10. QED
  BY <1>1, <1>2, <1>3, <1>4, <1>5, <1>6, <1>7, <1>8, <1>9 DEF Next, Send

\* When loraitp_send_image() has heard a FINACK with status 0, the receiver has
\* returned that very image with every byte in its file - with authenticated
\* control frames, or when only one image is ever sent, whatever the radio
\* loses and the boards do.
THEOREM AckedWhole == Guarded /\ Spec => []AckedIsWhole
<1> SUFFICES ASSUME Guarded PROVE Spec => []AckedIsWhole
  OBVIOUS
<1>1. Init => SafetyInv /\ AckInv
  BY SafetyInit, AckInit
<1>2. SafetyInv /\ AckInv /\ [Next]_vars => SafetyInv' /\ AckInv'
  BY SafetyStep, AckInvStep
<1>3. AckInv => AckedIsWhole
  BY DEF AckInv, AckedIsWhole, LastIsWhole
<1>4. QED
  BY <1>1, <1>2, <1>3, PTL DEF Spec

(***************************************************************************)
(* And of the other verdict.  PartialInv: a FINACK that reports an         *)
(* incomplete image waits in transmit() while a chunk is missing from the  *)
(* file, flushed as it is.  DenyInv: what it says is still what the        *)
(* receiver returned when the sender hears it, as AckInv has it returned   *)
(* already and in no image since.                                          *)
(***************************************************************************)
PartialInv ==
  reply.type = "FINACK" =>
    /\ meta # 0
    /\ reply.status # 0 => \E c \in Chunks(meta) : file[c] = 0

LEMMA PartialStep ==
  ASSUME Guarded, SafetyInv, PartialInv, [Next]_vars
  PROVE  PartialInv'
<1>a. SenderInv /\ FileTypes /\ AirInv /\ OrderInv /\ ReceiptInv
  BY DEF SafetyInv, TypeInv, TypeOK, SenderInv
<1>1. CASE HearFin
  <2>1. /\ meta # 0 /\ meta' = meta /\ reply = None
        /\ file' = FlushedFile /\ Hears("FIN")
        /\ reply'.status # 0 => FlushedHave # Size[meta]
    BY <1>1 DEF HearFin, Hears, Finack, Complete
  <2>2. meta = ses
    BY <1>a, <2>1, HeardIsCurrent
  <2>3. Following /\ meta \in Sessions
    BY <1>a, <2>1, <2>2 DEF Following, Ours, None, FileTypes, Sessions
  <2>4. FlushedHave = Cardinality(StoredIn(FlushedFile))
    BY <2>3, FlushFacts
  <2>5. reply'.status # 0 => StoredIn(FlushedFile) # Chunks(meta)
    BY <2>1, <2>3, <2>4, ChunkFacts
  <2>6. reply'.status # 0 => \E c \in Chunks(meta) : FlushedFile[c] = 0
    BY <2>5 DEF StoredIn
  <2>7. QED
    BY <2>1, <2>6 DEF PartialInv, Chunks
<1>2. CASE UNCHANGED <<reply, meta, file>>
  BY <1>2 DEF PartialInv, Chunks
<1>3. CASE reply'.type # "FINACK"
  BY <1>3 DEF PartialInv
<1>4. HearFin \/ UNCHANGED <<reply, meta, file>> \/ reply'.type # "FINACK"
  <2>1. SendReply \/ ReceiverResets => reply'.type # "FINACK"
    BY DEF SendReply, ReceiverResets, None
  <2>2. HearMeta \/ HearMetaRefused \/ HearData \/ HearEob \/ Deadline =>
          reply'.type # "FINACK"
    BY DEF HearMeta, HearMetaRefused, HearData, HearEob, Deadline, TimedOut,
       Hears, None, Stat
  <2>3. Send \/ SenderAborts \/ Air \/ HearMetaAgain \/ HearNothing
          \/ UNCHANGED vars => UNCHANGED <<reply, meta, file>>
    BY DEF Send, Air, vars, rxVars, StartImage, SendMeta, FirstBlock,
       SendChunk, SendEob, TakeStat, MissStat, SendFin, Finish, SenderAborts,
       DnLost, UpLost, DnUnheard, UpUnheard, HearMetaAgain, HearNothing
  <2>4. QED
    BY <2>1, <2>2, <2>3 DEF Next, Hear
<1>5. QED
  BY <1>1, <1>2, <1>3, <1>4

LastIsPartial(s) ==
  /\ last.ses = s /\ last.result = "INCOMPLETE"
  /\ \E c \in Chunks(s) : last.file[c] = 0

DenyInv ==
  /\ up.type = "FINACK" /\ up.status # 0 => LastIsPartial(up.ses)
  /\ outcome = "partial" =>
       phase = "idle" /\ meta = 0 /\ reply = None /\ LastIsPartial(ses)

LEMMA DenyInit == Init => DenyInv
  BY DEF Init, DenyInv, None

LEMMA DenyInvStep ==
  ASSUME Guarded, SafetyInv, AckInv, PartialInv, DenyInv, [Next]_vars
  PROVE  DenyInv'
<1> USE DEF DenyInv
<1>a. UNCHANGED last => \A s : LastIsPartial(s)' = LastIsPartial(s)
  BY DEF LastIsPartial, Chunks
<1>1. CASE StartImage
  BY <1>1, <1>a DEF StartImage, rxVars
<1>2. CASE \/ SendMeta \/ FirstBlock \/ SendChunk \/ SendEob
           \/ TakeStat \/ MissStat \/ SendFin
  <2>1. /\ phase # "idle" /\ UNCHANGED <<ses, outcome, rxVars>> /\ up' \in {up, None}
    BY <1>2 DEF SendMeta, FirstBlock, SendChunk, SendEob, TakeStat, MissStat,
       SendFin
  <2>2. QED
    BY <2>1, <1>a DEF rxVars, None
<1>3. CASE Finish
  <2>1. /\ UNCHANGED <<ses, rxVars>> /\ up' = None /\ phase' = "idle"
        /\ ses \in Sessions
        /\ outcome' = "partial" =>
             up.type = "FINACK" /\ Authentic(up, ses) /\ up.status # 0
    BY <1>3 DEF Finish, SafetyInv, TypeInv, TypeOK, SenderTypes, SenderInv, Sessions
  <2>2. outcome' = "partial" => LastIsPartial(ses) /\ meta = 0 /\ reply = None
    BY <2>1, FinackIsOurs DEF AckInv
  <2>3. QED
    BY <2>1, <2>2, <1>a DEF rxVars, None
<1>4. CASE SenderAborts
  BY <1>4, <1>a DEF SenderAborts, rxVars
<1>5. CASE Hear
  <2>1. dn # None /\ up = None /\ UNCHANGED <<senderVars, up, last>>
    BY <1>5 DEF Hear, Hears, HearMeta, HearMetaRefused, HearMetaAgain, HearData,
       HearEob, HearFin, HearNothing, rxVars, None
  <2>2. outcome # "partial"
    BY <2>1 DEF AckInv
  <2>3. QED
    BY <2>1, <2>2 DEF senderVars, None
<1>6. CASE SendReply
  <2>1. /\ reply # None /\ up' = reply /\ reply' = None /\ UNCHANGED senderVars
    BY <1>6 DEF SendReply
  <2>2. CASE reply.type = "FINACK"
    <3>1. /\ last'.ses = meta /\ last'.file = file /\ reply.ses = meta
          /\ reply.status # 0 => last'.result = "INCOMPLETE"
      BY <1>6, <2>2 DEF SendReply, Return, AckInv
    <3>2. reply.status # 0 => \E c \in Chunks(meta) : file[c] = 0
      BY <2>2 DEF PartialInv
    <3>3. up'.status # 0 => LastIsPartial(up.ses)'
      BY <2>1, <3>1, <3>2 DEF LastIsPartial, Chunks
    <3>4. QED
      BY <2>1, <3>3 DEF senderVars, None
  <2>3. CASE reply.type # "FINACK"
    BY <2>1, <2>3 DEF senderVars, None
  <2>4. QED
    BY <2>2, <2>3
<1>7. CASE Deadline
  <2>1. meta # 0 /\ UNCHANGED <<senderVars, up>>
    BY <1>7 DEF Deadline, TimedOut
  <2>2. QED
    BY <2>1 DEF senderVars, AckInv
<1>8. CASE ReceiverResets
  BY <1>8, <1>a DEF ReceiverResets, senderVars, None
<1>9. CASE Air \/ UNCHANGED vars
  <2>1. UNCHANGED <<senderVars, rxVars>> /\ up' \in {up, None}
    BY <1>9 DEF Air, DnLost, UpLost, DnUnheard, UpUnheard, UpOnceListening, vars
  <2>2. QED
    BY <2>1, <1>a DEF senderVars, rxVars, None
<1>10. QED
  BY <1>1, <1>2, <1>3, <1>4, <1>5, <1>6, <1>7, <1>8, <1>9 DEF Next, Send

\* When loraitp_send_image() returns an error because of a FINACK, the receiver
\* has returned that very image as incomplete, and a chunk is missing from its
\* file - with authenticated control frames, or when only one image is ever
\* sent, whatever the radio loses and the boards do.
THEOREM PartialMissing == Guarded /\ Spec => []PartialIsMissing
<1> SUFFICES ASSUME Guarded PROVE Spec => []PartialIsMissing
  OBVIOUS
<1> DEFINE Told == SafetyInv /\ AckInv /\ PartialInv /\ DenyInv
<1>1. Init => Told
  <2>1. Init => PartialInv
    BY DEF Init, PartialInv, None
  <2>2. QED
    BY <2>1, SafetyInit, AckInit, DenyInit
<1>2. Told /\ [Next]_vars => Told'
  BY SafetyStep, AckInvStep, PartialStep, DenyInvStep
<1>3. Told => PartialIsMissing
  BY DEF DenyInv, PartialIsMissing, LastIsPartial
<1>4. QED
  BY <1>1, <1>2, <1>3, PTL DEF Spec

----------------------------------------------------------------------------
(***************************************************************************)
(* What the two boards may tell each other about an image, and that the    *)
(* receiver implements ImageTransfer.  The invariants above say which      *)
(* chunks the receiver has; here a STAT under way is shown to be still     *)
(* true when the sender acts on it.                                        *)
(***************************************************************************)

(***************************************************************************)
(* What the receiver has of an image it does not lose while it stays in    *)
(* it, whether it is in RAM, on its way to the file or there.              *)
(***************************************************************************)
StoredPart == {c \in DOMAIN file : file[c] # 0}

LEMMA HeldIsStoredOrPresent == Held = StoredPart \cup present
  BY DEF Held, StoredPart

\* flush_block() and reset_block() lose nothing.
LEMMA TurnKeeps ==
  ASSUME FileTypes, FlushInv, meta # 0, NEW b \in Nat
  PROVE  LET t == Turned(b) IN
         /\ DOMAIN t.file = DOMAIN file
         /\ \A c \in DOMAIN file : file[c] # 0 => t.file[c] # 0
         /\ \A c \in present : c \in t.present \/ t.file[c] # 0
         /\ t.present \subseteq present
         /\ \A c \in DOMAIN file : t.file[c] # 0 => c \in Held
<1>1. CASE b = cur
  BY <1>1 DEF Turned, Held
<1>2. CASE b # cur /\ ~Buffered
  BY <1>2 DEF Turned, FlushedFile, FlushInv, PresentStored, Held
<1>3. CASE b # cur /\ Buffered
  <2>1. Turned(b).file = FlushedFile /\ Turned(b).present = {}
    BY <1>3 DEF Turned
  <2>2. \A c \in present : c \in DOMAIN file /\ buf[c] # 0
    BY <1>3 DEF FileTypes, Sessions
  <2>3. FlushedFile =
          [c \in DOMAIN file |-> IF c \in present THEN buf[c] ELSE file[c]]
    BY <1>3 DEF FlushedFile
  <2>4. QED
    BY <2>1, <2>2, <2>3 DEF Held
<1>4. QED
  BY <1>1, <1>2, <1>3

\* Everything the receiver may newly hold is the chunk it just heard.
LEMMA HeldStep ==
  ASSUME AirTypes, FileTypes, FlushInv, [Next]_vars, meta # 0, meta' = meta
  PROVE  /\ StoredPart \subseteq StoredPart'
         /\ Held \subseteq Held'
         /\ HearData => Held' \subseteq Held \cup {dn.seq}
         /\ ~HearData => Held' \subseteq Held
<1> USE HeldIsStoredOrPresent
<1>1. CASE HearData
  <2> DEFINE t == Turned(dn.seq \div BlockSize)
  <2>1. dn.ses \in Sessions /\ dn.seq \div BlockSize \in Nat
    BY <1>1, FrameFacts, BlockOfNat DEF HearData, Hears, AirTypes
  <2>2. /\ DOMAIN t.file = DOMAIN file
        /\ \A c \in DOMAIN file : file[c] # 0 => t.file[c] # 0
        /\ \A c \in present : c \in t.present \/ t.file[c] # 0
        /\ t.present \subseteq present
        /\ \A c \in DOMAIN file : t.file[c] # 0 => c \in Held
    BY <2>1, TurnKeeps
  <2>3. t.present \subseteq present' /\ present' \subseteq t.present \cup {dn.seq}
    BY <1>1 DEF HearData
  <2>4. file' = t.file \/ file' = [t.file EXCEPT ![dn.seq] = dn.ses]
    BY <1>1 DEF HearData, Written
  <2>5. /\ DOMAIN file' = DOMAIN file
        /\ \A c \in DOMAIN file : t.file[c] # 0 => file'[c] # 0
        /\ \A c \in DOMAIN file : c # dn.seq => file'[c] = t.file[c]
    BY <2>1, <2>2, <2>4 DEF Sessions
  <2>6. StoredPart \subseteq StoredPart'
    BY <2>2, <2>5 DEF StoredPart
  <2>7. present \subseteq DOMAIN file
    BY DEF FileTypes
  <2>8. Held \subseteq Held'
    BY <2>2, <2>3, <2>5, <2>6, <2>7 DEF Held, StoredPart
  <2>9. Held' \subseteq Held \cup {dn.seq}
    <3>1. present \subseteq Held
      BY DEF Held
    <3>2. \A c \in DOMAIN file' :
            file'[c] # 0 /\ c # dn.seq => c \in Held
      BY <2>2, <2>5
    <3>3. QED
      BY <2>2, <2>3, <3>1, <3>2 DEF Held
  <2>10. QED
    BY <1>1, <2>6, <2>8, <2>9
<1>2. CASE HearEob
  <2> DEFINE t == Turned(dn.block)
  <2>1. dn.block \in Nat
    BY <1>2, FrameFacts DEF HearEob, Hears, AirTypes
  <2>2. /\ DOMAIN t.file = DOMAIN file
        /\ \A c \in DOMAIN file : file[c] # 0 => t.file[c] # 0
        /\ \A c \in present : c \in t.present \/ t.file[c] # 0
        /\ t.present \subseteq present
        /\ \A c \in DOMAIN file : t.file[c] # 0 => c \in Held
    BY <2>1, TurnKeeps
  <2>3. file' = t.file /\ present' = t.present /\ dn.type = "EOB"
    BY <1>2 DEF HearEob, Hears
  <2>4. present \subseteq DOMAIN file /\ present \subseteq Held
    BY DEF FileTypes, Held
  <2>5. ~HearData
    BY <2>3 DEF HearData, Hears
  <2>6. QED
    BY <2>2, <2>3, <2>4, <2>5 DEF Held, StoredPart
<1>3. CASE HearFin
  <2>1. file' = FlushedFile /\ present' = present /\ dn.type = "FIN"
    BY <1>3 DEF HearFin, Hears
  <2>2. ~HearData
    BY <2>1 DEF HearData, Hears
  <2>3. CASE ~Buffered
    BY <2>1, <2>2, <2>3 DEF FlushedFile, Held, StoredPart
  <2>4. CASE Buffered
    <3>1. \A c \in present : c \in DOMAIN file /\ buf[c] # 0
      BY <2>4 DEF FileTypes, Sessions
    <3>2. FlushedFile =
            [c \in DOMAIN file |-> IF c \in present THEN buf[c] ELSE file[c]]
      BY <2>4 DEF FlushedFile
    <3>3. QED
      BY <2>1, <2>2, <3>1, <3>2 DEF Held, StoredPart
  <2>5. QED
    BY <2>3, <2>4
<1>4. CASE UNCHANGED <<file, present>> /\ ~HearData
  BY <1>4 DEF Held, StoredPart
<1>5. ~HearMeta
  BY FrameFacts DEF HearMeta, Announces
<1>6. \/ HearData \/ HearEob \/ HearFin
      \/ UNCHANGED <<file, present>>
  BY <1>5
  DEF Next, Send, Hear, Air, vars, rxVars, senderVars, Return,
     StartImage, SendMeta, FirstBlock, SendChunk, SendEob, TakeStat,
     MissStat, SendFin, Finish, SenderAborts, SendReply, Deadline,
     ReceiverResets, DnLost, UpLost, DnUnheard, UpUnheard,
     HearMetaRefused, HearMetaAgain, HearNothing
<1>7. QED
  BY <1>1, <1>2, <1>3, <1>4, <1>6

(***************************************************************************)
(* A STAT is true as long as it is under way: the receiver hears nothing   *)
(* between the EOB it answers and the end of its answer, and does not lose *)
(* what it has while it stays in the session.                              *)
(***************************************************************************)
StatHolds(r) ==
  r.type = "STAT" /\ r.ses = meta =>
    BlockChunks(meta, r.block) \ r.missing \subseteq Held
ConfirmInv ==
  /\ phase = "meta" => confirmed = {}
  /\ StatHolds(reply) /\ StatHolds(up)
  /\ ConfirmedIsHeld

LEMMA ConfirmInit == Init => ConfirmInv
  BY DEF Init, ConfirmInv, StatHolds, ConfirmedIsHeld, None

\* A STAT the sender acts on is about the session it sends.
LEMMA StatIsOurs ==
  ASSUME Guarded, SenderInv, AirTypes, phase = "stat", up.type = "STAT",
         Authentic(up, ses)
  PROVE  up.ses = ses
<1>1. ses \in Sessions /\ up.ses \in Sessions
  BY DEF SenderInv, SenderTypes, AirTypes, Replies, Sessions, None
<1>2. CASE MacControl
  BY <1>2 DEF Authentic
<1>3. CASE Len(Size) = 1
  BY <1>1, <1>3 DEF Sessions
<1>4. QED
  BY <1>2, <1>3 DEF Guarded

\* The METAs of a session are sent before any of its blocks.
LEMMA ConfirmedStep ==
  ASSUME SenderInv, ConfirmInv, [Next]_vars
  PROVE  /\ phase' = "meta" => confirmed' = {}
         /\ \/ TakeStat
            \/ ses' = ses /\ confirmed' = confirmed
            \/ StartImage /\ confirmed' = {}
  BY DEF ConfirmInv, Next, Send, Hear, Air, vars, rxVars, senderVars, Return,
     EnterBlock, StartImage, SendMeta, FirstBlock, SendChunk, SendEob,
     TakeStat, MissStat, SendFin, Finish, SenderAborts, SendReply, Deadline,
     ReceiverResets, DnLost, UpLost, DnUnheard, UpUnheard, HearMeta,
     HearMetaRefused, HearMetaAgain, HearData, HearEob, HearFin, HearNothing

\* What becomes of the answers under way.
LEMMA AnswerStep ==
  ASSUME [Next]_vars
  PROVE  /\ \/ up' \in {up, None}
            \/ SendReply /\ up' = reply
         /\ reply' \in {reply, None} \/ HearEob \/ HearFin
         /\ HearMeta => up' = None /\ reply' = None
         /\ meta' \in {meta, 0} \/ HearMeta
  BY DEF Hears, Next, Send, Hear, Air, vars, rxVars, senderVars, Return,
     StartImage, SendMeta, FirstBlock, SendChunk, SendEob, TakeStat,
     MissStat, SendFin, Finish, SenderAborts, SendReply, Deadline,
     ReceiverResets, DnLost, UpLost, DnUnheard, UpUnheard, UpOnceListening,
     HearMeta, HearMetaRefused, HearMetaAgain, HearData, HearEob, HearFin,
     HearNothing

LEMMA ConfirmStep ==
  ASSUME Guarded, SenderInv, AirTypes, FileTypes, AirInv, FlushInv,
         ConfirmInv, [Next]_vars
  PROVE  ConfirmInv'
<1>1. CASE meta' = 0
  <2>1. up' \in Replies /\ reply' \in Replies
    BY AirTypesStep DEF AirTypes
  <2>2. \A r \in Replies : r.type = "STAT" => r.ses # 0
    BY DEF Replies, Sessions, None
  <2>3. StatHolds(up)' /\ StatHolds(reply)'
    BY <1>1, <2>1, <2>2 DEF StatHolds
  <2>4. QED
    BY <1>1, <2>3, ConfirmedStep DEF ConfirmInv, ConfirmedIsHeld
<1>2. CASE HearMeta
  <2>1. /\ up' = None /\ reply' = None /\ phase = "meta"
        /\ UNCHANGED <<phase, confirmed>>
    BY <1>2, AnswerStep DEF HearMeta, Hears, AirInv, senderVars
  <2>2. QED
    BY <2>1 DEF ConfirmInv, StatHolds, ConfirmedIsHeld, None
<1>3. CASE meta' = meta /\ meta # 0
  <2>1. Held \subseteq Held' /\ ~HearMeta
    BY <1>3, HeldStep, FrameFacts DEF HearMeta, Announces
  <2>2. \A b : BlockChunks(meta, b)' = BlockChunks(meta, b)
    BY <1>3 DEF BlockChunks, Chunks
  <2>3. StatHolds(up)'
    BY <1>3, <2>1, <2>2, AnswerStep DEF ConfirmInv, StatHolds, None
  <2>4. StatHolds(reply)'
    <3>1. CASE HearEob
      <4>1. /\ reply' = Stat(meta, dn.block, dn.round,
                             Missing(dn.block, Turned(dn.block).present))
            /\ present' = Turned(dn.block).present
        BY <3>1 DEF HearEob
      <4>2. BlockChunks(meta, dn.block) \ reply'.missing \subseteq present'
        BY <4>1 DEF Stat, Missing
      <4>3. present' \subseteq Held'
        BY DEF Held
      <4>4. reply'.block = dn.block
        BY <4>1 DEF Stat
      <4>5. QED
        BY <1>3, <2>2, <4>2, <4>3, <4>4 DEF StatHolds
    <3>2. CASE HearFin
      BY <3>2 DEF HearFin, Finack, StatHolds
    <3>3. CASE reply' \in {reply, None}
      BY <1>3, <2>1, <2>2, <3>3 DEF ConfirmInv, StatHolds, None
    <3>4. QED
      BY <3>1, <3>2, <3>3, AnswerStep
  <2>5. ConfirmedIsHeld'
    <3>1. CASE TakeStat
      <4>1. /\ phase = "stat" /\ up.type = "STAT" /\ Authentic(up, ses)
            /\ up.block = blk /\ ses' = ses
            /\ confirmed' = confirmed \cup (IF up.missing = {} THEN {blk} ELSE {})
        BY <3>1 DEF TakeStat, StatMatches
      <4>2. up.ses = ses
        BY <4>1, StatIsOurs
      <4>3. meta = ses /\ up.missing = {} => BlockChunks(ses, blk) \subseteq Held
        BY <4>1, <4>2 DEF ConfirmInv, StatHolds
      <4>4. QED
        BY <1>3, <2>1, <2>2, <4>1, <4>3 DEF ConfirmInv, ConfirmedIsHeld
    <3>2. CASE confirmed' = {}
      BY <3>2 DEF ConfirmedIsHeld
    <3>3. CASE ses' = ses /\ confirmed' = confirmed
      BY <1>3, <2>1, <2>2, <3>3 DEF ConfirmInv, ConfirmedIsHeld
    <3>4. QED
      BY <3>1, <3>2, <3>3, ConfirmedStep
  <2>6. QED
    BY <2>3, <2>4, <2>5, ConfirmedStep DEF ConfirmInv
<1>4. QED
  BY <1>1, <1>2, <1>3, AnswerStep

TrustInv == SafetyInv /\ FlushInv /\ ConfirmInv

LEMMA TrustFacts ==
  ASSUME TrustInv
  PROVE  /\ SenderInv /\ AirTypes /\ FileTypes
         /\ AirInv /\ OrderInv /\ ReceiptInv /\ VerdictInv
         /\ SafetyInv /\ FlushInv /\ ConfirmInv
  BY DEF TrustInv, SafetyInv, TypeInv, TypeOK, SenderInv

LEMMA TrustHolds == Guarded /\ Spec => []TrustInv
<1> SUFFICES ASSUME Guarded PROVE Spec => []TrustInv
  OBVIOUS
<1>1. Init => TrustInv
  BY SafetyInit, ConfirmInit
  DEF TrustInv, Init, FlushInv, FinWritesOut, NoResult
<1>2. TrustInv /\ [Next]_vars => TrustInv'
  BY TrustFacts, SafetyStep, FlushStep, ConfirmStep DEF TrustInv
<1>3. QED
  BY <1>1, <1>2, PTL DEF Spec

\* A block that loraitp_send_image() left because a STAT said COMPLETE is in
\* the receiver's hands, in RAM or in storage, for as long as the receiver is
\* in that session - whatever becomes of the frames and the boards - with
\* authenticated control frames, or when only one image is ever sent.
THEOREM ConfirmedHeld == Guarded /\ Spec => []ConfirmedIsHeld
<1>1. TrustInv => ConfirmedIsHeld
  BY DEF TrustInv, ConfirmInv
<1>2. QED
  BY <1>1, TrustHolds, PTL

(***************************************************************************)
(* Repair rounds repeat nothing the receiver has: what a STAT names is     *)
(* missing for as long as the STAT is under way, and what is still to be   *)
(* sent of it is missing until it is on the air.                           *)
(***************************************************************************)
StatAsks(r) ==
  r.type = "STAT" /\ r.ses = meta /\ meta = ses => r.missing \cap Held = {}
RepairInv ==
  /\ StatAsks(reply) /\ StatAsks(up)
  /\ dn.type = "DATA" => dn.seq \notin todo
  /\ phase = "data" /\ round > 0 /\ meta = ses => todo \cap Held = {}

LEMMA RepairInit == Init => RepairInv
  BY DEF Init, RepairInv, StatAsks, None

\* The bitmap of the current block and the file together are what is held.
LEMMA MissingIsNotHeld ==
  ASSUME TrustInv, HearEob, meta = ses, TrustInv'
  PROVE  reply'.missing \cap Held' = {}
<1>1. /\ meta # 0 /\ meta' = meta /\ ses' = ses /\ cur' = dn.block
      /\ present' = Turned(dn.block).present
      /\ reply' = Stat(meta, dn.block, dn.round,
                       Missing(dn.block, Turned(dn.block).present))
  BY DEF HearEob, senderVars
<1>2. /\ reply'.missing = BlockChunks(meta', cur') \ present'
      /\ reply'.type = "STAT"
  BY <1>1 DEF Stat, Missing
<1>3. /\ Buffered' => \A c \in BlockChunks(meta', cur') : file'[c] = 0
      /\ ~Buffered' =>
           present' = {c \in BlockChunks(meta', cur') : file'[c] # 0}
  BY <1>1, <1>2 DEF TrustInv, SafetyInv, ReceiptInv, Ours, BlockChunks, Chunks
<1>4. \A c \in BlockChunks(meta', cur') \ present' : file'[c] = 0
  BY <1>3
<1>5. QED
  BY <1>2, <1>4 DEF Held

\* What the sender still has to repeat in a round.
LEMMA TodoStep ==
  ASSUME Guarded, TrustInv, RepairInv, [Next]_vars
  PROVE  /\ dn'.type = "DATA" => dn'.seq \notin todo'
         /\ phase' = "data" /\ round' > 0 /\ meta' = ses' =>
              todo' \cap Held = {} /\ meta = ses
<1> USE DEF RepairInv
<1>1. CASE StartImage
  BY <1>1 DEF StartImage, None
<1>2. CASE SendChunk
  BY <1>2 DEF SendChunk, Data, rxVars
<1>3. CASE FirstBlock \/ MissStat
  BY <1>3 DEF FirstBlock, MissStat, EnterBlock, None
<1>4. CASE TakeStat
  <2>1. /\ up.type = "STAT" /\ up.ses = ses /\ dn' = None
        /\ UNCHANGED <<ses, meta>>
    BY <1>4, TrustFacts, StatIsOurs DEF TakeStat, rxVars
  <2>2. \/ todo' = up.missing \cap BlockChunks(ses, blk)
        \/ EnterBlock(blk + 1)
    BY <1>4 DEF TakeStat
  <2>3. meta = ses => up.missing \cap Held = {}
    BY <2>1 DEF StatAsks
  <2>4. QED
    BY <2>1, <2>2, <2>3 DEF EnterBlock, None
<1>5. CASE SendMeta \/ SendEob \/ SendFin \/ Finish \/ SenderAborts
  BY <1>5 DEF SendMeta, SendEob, SendFin, Finish, SenderAborts, None,
     Meta, Eob, Fin
<1>6. CASE UNCHANGED senderVars /\ dn' \in {dn, None}
  <2>1. ses' # 0 \/ phase' # "data"
    BY <1>6, TrustFacts DEF SenderInv, senderVars
  <2>2. CASE HearMeta
    <3>1. phase = "meta"
      BY <2>2, TrustFacts DEF HearMeta, Hears, AirInv
    <3>2. QED
      BY <1>6, <3>1 DEF senderVars, None
  <2>3. CASE meta' \in {meta, 0}
    BY <1>6, <2>1, <2>3 DEF senderVars, None
  <2>4. QED
    BY <2>2, <2>3, AnswerStep
<1>7. \/ Send \/ SenderAborts
      \/ UNCHANGED senderVars /\ dn' \in {dn, None}
  BY DEF Hears, Next, Hear, Air, vars, SendReply, Deadline, ReceiverResets,
     DnLost, UpLost, DnUnheard, UpUnheard, HearMeta, HearMetaRefused,
     HearMetaAgain, HearData, HearEob, HearFin, HearNothing
<1>8. QED
  BY <1>1, <1>2, <1>3, <1>4, <1>5, <1>6, <1>7 DEF Send

LEMMA RepairStep ==
  ASSUME Guarded, TrustInv, RepairInv, [Next]_vars
  PROVE  RepairInv'
<1>1. TrustInv'
  BY TrustFacts, SafetyStep, FlushStep, ConfirmStep DEF TrustInv
<1>2. /\ up' \in Replies /\ reply' \in Replies /\ ses \in Nat /\ meta \in Nat
      /\ meta <= ses
  BY <1>1, TrustFacts
  DEF AirTypes, SenderInv, SenderTypes, FileTypes, OrderInv, SafetyInv,
      TrustInv, TypeInv, TypeOK
<1>3. CASE meta' = 0
  <2>1. \A r \in Replies : r.type = "STAT" => r.ses # 0
    BY DEF Replies, Sessions, None
  <2>2. StatAsks(up)' /\ StatAsks(reply)'
    BY <1>2, <1>3, <2>1 DEF StatAsks
  <2>3. phase' = "data" => ses' # 0
    BY <1>1 DEF TrustInv, SafetyInv, TypeInv
  <2>4. QED
    BY <1>3, <2>2, <2>3, TodoStep DEF RepairInv
<1>4. CASE HearMeta
  <2>1. /\ up' = None /\ reply' = None /\ phase = "meta" /\ phase' = phase
    BY <1>4, AnswerStep, TrustFacts DEF HearMeta, Hears, AirInv, senderVars
  <2>2. QED
    BY <2>1, TodoStep DEF RepairInv, StatAsks, None
<1>5. CASE StartImage
  <2>1. meta' # ses'
    BY <1>2, <1>5 DEF StartImage, rxVars
  <2>2. QED
    BY <2>1, TodoStep DEF RepairInv, StatAsks
<1>6. CASE meta' = meta /\ meta # 0 /\ ses' = ses
  <2>1. /\ HearData => Held' \subseteq Held \cup {dn.seq}
        /\ ~HearData => Held' \subseteq Held
    BY <1>6, TrustFacts, HeldStep
  <2>2. StatAsks(up)'
    <3>1. CASE HearData
      BY <3>1 DEF HearData, Hears, StatAsks, None
    <3>2. CASE ~HearData
      BY <1>6, <2>1, <3>2, AnswerStep DEF RepairInv, StatAsks, None
    <3>3. QED
      BY <3>1, <3>2
  <2>3. StatAsks(reply)'
    <3>1. CASE HearEob
      BY <1>1, <1>6, <3>1, MissingIsNotHeld DEF StatAsks
    <3>2. CASE HearFin
      BY <3>2 DEF HearFin, Finack, StatAsks
    <3>3. CASE HearData
      BY <3>3 DEF HearData, Hears, StatAsks, None
    <3>4. CASE reply' \in {reply, None} /\ ~HearData
      BY <1>6, <2>1, <3>4 DEF RepairInv, StatAsks, None
    <3>5. QED
      BY <3>1, <3>2, <3>3, <3>4, AnswerStep
  <2>4. HearData => dn.seq \notin todo'
    BY DEF RepairInv, HearData, Hears, senderVars
  <2>5. QED
    BY <2>1, <2>2, <2>3, <2>4, TodoStep DEF RepairInv
<1>7. meta' = 0 \/ HearMeta \/ StartImage \/ (meta' = meta /\ ses' = ses)
  BY AnswerStep, TrustFacts, ConfirmedStep DEF TakeStat
<1>8. QED
  BY <1>3, <1>4, <1>5, <1>6, <1>7

\* Airtime is scarce: in a repair round the sender repeats no chunk that the
\* receiver of this session already has - with authenticated control frames,
\* or when only one image is ever sent.
THEOREM RepairsNeeded == Guarded /\ Spec => RepairIsNeeded
<1> SUFFICES ASSUME Guarded PROVE Spec => RepairIsNeeded
  OBVIOUS
<1>1. Init => TrustInv /\ RepairInv
  BY SafetyInit, ConfirmInit, RepairInit
  DEF TrustInv, Init, FlushInv, FinWritesOut, NoResult
<1>2. TrustInv /\ RepairInv /\ [Next]_vars => TrustInv' /\ RepairInv'
  BY TrustFacts, SafetyStep, FlushStep, ConfirmStep, RepairStep DEF TrustInv
<1>3. TrustInv /\ RepairInv /\ [Next]_vars =>
        [dn' # dn /\ dn'.type = "DATA" /\ round > 0 /\ meta = ses
           => dn'.seq \notin Held]_vars
  <2> SUFFICES ASSUME TrustInv, RepairInv, [Next]_vars,
                      dn' # dn, dn'.type = "DATA", round > 0, meta = ses
               PROVE  dn'.seq \notin Held
    OBVIOUS
  <2>1. SendChunk
    BY DEF Hears, Next, Send, Hear, Air, vars, SendReply, Deadline,
       ReceiverResets, DnLost, UpLost, DnUnheard, UpUnheard, HearMeta,
       HearMetaRefused, HearMetaAgain, HearData, HearEob, HearFin,
       HearNothing, StartImage, SendMeta, FirstBlock, SendEob, TakeStat,
       MissStat, SendFin, Finish, SenderAborts, None, Meta, Eob, Fin
  <2>2. QED
    BY <2>1 DEF SendChunk, Data, RepairInv
<1>4. QED
  BY <1>1, <1>2, <1>3, PTL DEF Spec, RepairIsNeeded

(***************************************************************************)
(* The receiver implements ImageTransfer: HearMeta opens an image, every   *)
(* frame of it stores, a FINACK or the session timeout closes it, and a    *)
(* refusal or a reset discards it.  That a FINACK which reports an         *)
(* incomplete image is not contradicted by what is stored is PartialInv.   *)
(***************************************************************************)
Sealed == MacData \/ Len(Size) = 1

\* The abstract variable `stored`.
Pairs(f) == {<<c, f[c]>> : c \in {x \in DOMAIN f : f[x] # 0}}

PairsInv ==
  meta # 0 =>
    /\ Ours /\ meta \in Sessions
    /\ DOMAIN file = Chunks(meta)
    /\ \A c \in Chunks(meta) : file[c] \in {0, meta}

LEMMA PairsHold == Sealed /\ SafetyInv => PairsInv
<1> SUFFICES ASSUME Sealed, SafetyInv, meta # 0
             PROVE  /\ Ours /\ meta \in Sessions
                    /\ DOMAIN file = Chunks(meta)
                    /\ \A c \in Chunks(meta) : file[c] \in {0, meta}
  BY DEF PairsInv
<1>1. ses \in 0..Len(Size) /\ meta \in 0..Len(Size) /\ meta <= ses
  BY DEF SafetyInv, TypeInv, TypeOK, SenderTypes, FileTypes, OrderInv
<1>2. Ours /\ meta \in Sessions
  BY <1>1 DEF Ours, Sealed, Sessions
<1>3. QED
  BY <1>2 DEF SafetyInv, ReceiptInv, TypeInv, TypeOK, FileTypes

LEMMA PairsAre ==
  ASSUME NEW m, NEW f, DOMAIN f = Chunks(m), \A c \in Chunks(m) : f[c] \in {0, m}
  PROVE  /\ Pairs(f) = {<<c, m>> : c \in {x \in DOMAIN f : f[x] # 0}}
         /\ Pairs(f) \subseteq Transfer!Whole(m)
<1>1. Pairs(f) = {<<c, m>> : c \in {x \in DOMAIN f : f[x] # 0}}
  BY DEF Pairs
<1>2. QED
  BY <1>1 DEF Transfer!Whole

LEMMA StoresStep ==
  ASSUME PairsInv, PairsInv', meta # 0, meta' = meta, last' = last,
         StoredPart \subseteq StoredPart'
  PROVE  Transfer!Store
<1>1. /\ DOMAIN file = Chunks(meta) /\ \A c \in Chunks(meta) : file[c] \in {0, meta}
      /\ DOMAIN file' = Chunks(meta) /\ \A c \in Chunks(meta) : file'[c] \in {0, meta}
  BY DEF PairsInv, Chunks
<1>2. /\ Pairs(file) = {<<c, meta>> : c \in StoredPart}
      /\ Pairs(file') = {<<c, meta>> : c \in StoredPart'}
      /\ Pairs(file') \subseteq Transfer!Whole(meta)
  BY <1>1, PairsAre DEF StoredPart
<1>3. Pairs(file) \subseteq Pairs(file')
  BY <1>2
<1>4. QED
  BY <1>2, <1>3 DEF Transfer!Store, Pairs

\* The image is closed: image_end() and the return of loraitp_receive_image().
LEMMA ClosesStep ==
  ASSUME PairsInv, meta # 0, NEW result, Return(result),
         result = "COMPLETE" => \A c \in Chunks(meta) : file[c] = meta,
         result = "INCOMPLETE" => \E c \in Chunks(meta) : file[c] = 0
  PROVE  Transfer!Close(result)
<1>1. /\ DOMAIN file = Chunks(meta) /\ \A c \in Chunks(meta) : file[c] \in {0, meta}
  BY DEF PairsInv
<1>2. Pairs(file) = {<<c, meta>> : c \in {x \in Chunks(meta) : file[x] # 0}}
  BY <1>1, PairsAre
<1>3. result = "COMPLETE" => Pairs(file) = Transfer!Whole(meta)
  BY <1>2 DEF Transfer!Whole, PairsInv, Sessions
<1>4. result = "INCOMPLETE" => Pairs(file) # Transfer!Whole(meta)
  <2>1. SUFFICES ASSUME NEW c \in Chunks(meta), file[c] = 0
                 PROVE  Pairs(file) # Transfer!Whole(meta)
    OBVIOUS
  <2>2. <<c, meta>> \notin Pairs(file) /\ <<c, meta>> \in Transfer!Whole(meta)
    BY <1>2, <2>1 DEF Transfer!Whole
  <2>3. QED
    BY <2>2
<1>5. Pairs(NoFile) = {}
  BY DEF Pairs, NoFile
<1>6. QED
  BY <1>3, <1>4, <1>5 DEF Return, Transfer!Close, Pairs

LEMMA TransferInit == Init => Transfer!Init
<1>1. Pairs(NoFile) = {}
  BY DEF Pairs, NoFile
<1>2. QED
  BY <1>1 DEF Init, Transfer!Init, NoResult, Pairs

LEMMA TransferStep ==
  ASSUME Sealed, SafetyInv, SafetyInv', FlushInv, PartialInv, [Next]_vars
  PROVE  [Transfer!Next]_(Transfer!transferVars)
<1>a. AirTypes /\ FileTypes /\ VerdictInv
  BY DEF SafetyInv, TypeInv, TypeOK
<1>b. PairsInv
  BY PairsHold
<1>c. PairsInv'
  <2>1. Sealed' /\ SafetyInv' => PairsInv'
    BY PairsHold, PTL
  <2>2. QED
    BY <2>1 DEF Sealed
<1>1. CASE HearMeta
  <2>1. PICK i \in Sessions : i = dn.ses
    BY <1>1, <1>a, FrameFacts DEF HearMeta, Hears, AirTypes
  <2>2. meta' = i /\ last' = last /\ file' = [c \in Chunks(i) |-> 0]
    BY <1>1, <2>1 DEF HearMeta
  <2>3. Pairs(file') = {}
    BY <2>2 DEF Pairs
  <2>4. Transfer!Open(i)
    BY <2>2, <2>3 DEF Transfer!Open, Pairs
  <2>5. QED
    BY <2>4 DEF Transfer!Next
<1>2. CASE HearMetaRefused \/ ReceiverResets
  <2>1. meta' = 0 /\ file' = NoFile /\ last' = last
    BY <1>2 DEF HearMetaRefused, ReceiverResets
  <2>2. Pairs(file') = {}
    BY <2>1 DEF Pairs, NoFile
  <2>3. Transfer!Discard
    BY <2>1, <2>2 DEF Transfer!Discard, Pairs
  <2>4. Transfer!Next
    BY <2>3 DEF Transfer!Next
  <2>5. QED
    BY <2>4
<1>3. CASE HearData \/ HearEob \/ HearFin
  <2>1. meta # 0 /\ meta' = meta /\ last' = last
    BY <1>3 DEF HearData, HearEob, HearFin
  <2>2. StoredPart \subseteq StoredPart'
    BY <1>a, <2>1, HeldStep
  <2>3. Transfer!Store
    BY <1>b, <1>c, <2>1, <2>2, StoresStep
  <2>4. QED
    BY <2>3 DEF Transfer!Next
<1>4. CASE SendReply /\ reply.type = "FINACK"
  <2>1. meta # 0
    BY <1>4 DEF PartialInv
  <2>2. CASE reply.status = 0
    <3>1. Return("COMPLETE")
      BY <1>4, <2>2 DEF SendReply
    <3>2. \A c \in Chunks(meta) : file[c] = meta
      BY <1>4, <1>a, <2>2 DEF VerdictInv
    <3>3. Transfer!Close("COMPLETE")
      BY <1>b, <2>1, <3>1, <3>2, ClosesStep
    <3>4. QED
      BY <3>3 DEF Transfer!Next
  <2>3. CASE reply.status # 0
    <3>1. Return("INCOMPLETE")
      BY <1>4, <2>3 DEF SendReply
    <3>2. \E c \in Chunks(meta) : file[c] = 0
      BY <1>4, <2>3 DEF PartialInv
    <3>3. Transfer!Close("INCOMPLETE")
      BY <1>b, <2>1, <3>1, <3>2, ClosesStep
    <3>4. QED
      BY <3>3 DEF Transfer!Next
  <2>4. QED
    BY <2>2, <2>3
<1>5. CASE Deadline
  <2>1. meta # 0 /\ Return("TIMEOUT")
    BY <1>5 DEF Deadline, TimedOut
  <2>2. Transfer!Close("TIMEOUT")
    BY <1>b, <2>1, ClosesStep
  <2>3. QED
    BY <2>2 DEF Transfer!Next
<1>6. CASE UNCHANGED <<meta, file, last>>
  BY <1>6 DEF Transfer!transferVars
<1>7. \/ HearMeta \/ HearMetaRefused \/ ReceiverResets \/ Deadline
      \/ HearData \/ HearEob \/ HearFin
      \/ SendReply /\ reply.type = "FINACK"
      \/ UNCHANGED <<meta, file, last>>
  BY DEF Next, Send, Hear, Air, vars, rxVars, senderVars,
     StartImage, SendMeta, FirstBlock, SendChunk, SendEob, TakeStat,
     MissStat, SendFin, Finish, SenderAborts, SendReply, DnLost, UpLost,
     DnUnheard, UpUnheard, HearMetaAgain, HearNothing
<1>8. QED
  BY <1>1, <1>2, <1>3, <1>4, <1>5, <1>6, <1>7

LEMMA GuardedIfSealed == Sealed => Guarded
  BY ModeAssumption DEF Sealed, Guarded

\* loraitp_receive_image() keeps the promise of ImageTransfer: an image is
\* opened when it is announced, its stored part only grows and holds nothing of
\* another image, and COMPLETE and INCOMPLETE say exactly whether it is whole -
\* when DATA frames are authenticated, or only one image is ever sent.
THEOREM TransferImplemented ==
  (MacData \/ Len(Size) = 1) /\ Spec => ImplementsTransfer
<1> SUFFICES ASSUME Sealed PROVE Spec => ImplementsTransfer
  BY DEF Sealed
<1>1. Guarded
  BY GuardedIfSealed
<1>2. Init => SafetyInv /\ FlushInv /\ PartialInv
  BY SafetyInit
  DEF Init, FlushInv, FinWritesOut, NoResult, PartialInv, None
<1>3. SafetyInv /\ FlushInv /\ PartialInv /\ [Next]_vars =>
        SafetyInv' /\ FlushInv' /\ PartialInv'
  <2>1. SafetyInv => AirTypes /\ FileTypes
    BY DEF SafetyInv, TypeInv, TypeOK
  <2>2. QED
    BY <1>1, <2>1, SafetyStep, FlushStep, PartialStep
<1>4. Init => Transfer!Init
  BY TransferInit
<1>5. SafetyInv /\ SafetyInv' /\ FlushInv /\ PartialInv /\ [Next]_vars =>
        [Transfer!Next]_(Transfer!transferVars)
  BY TransferStep
<1>6. QED
  BY <1>2, <1>3, <1>4, <1>5, PTL DEF Spec, ImplementsTransfer, Transfer!Spec

=============================================================================
