----------------------------- MODULE Ota_proofs -----------------------------
(***************************************************************************)
(* Every step of an update is one of BootGuard's or leaves the GD32 alone, *)
(* so what is proved of BootGuard holds during every update.  What         *)
(* execute_ota then reports is true (OkMeansFlashed, StagedFirst), and only*)
(* a power cut can make the GD32 start an incomplete image, for any images,*)
(* bounds and losses.  UpdateInv is inductive: it says what may be on the  *)
(* link at each stage, and what an answer says of the GD32.                *)
(***************************************************************************)
EXTENDS Ota, BootGuard_proofs, SequenceTheorems

USE ImageAssumption, OtaAssumption

\* OtaTypeOK without BootGuard's part.
LinkTypeOK ==
  /\ stage \in Stages
  /\ img \in Image
  /\ off \in Offsets
  /\ ack \in Answers
  /\ viaSpi \in BOOLEAN
  /\ known \in {"unknown", "yes", "no"}
  /\ res \in Results
  /\ down \in Seq(Requests)
  /\ up \in Seq(Answers)
  /\ upsets \in 0..MaxUpsets

-----------------------------------------------------------------------------
(* Every step of an update is one of BootGuard's, or none. *)

\* The next message names an image and a page that exist.
LEMMA MsgType ==
  ASSUME LinkTypeOK, down # <<>>
  PROVE  Msg \in Requests /\ Tail(down) \in Seq(Requests)
<1>1. down \in Seq(Requests)
  BY DEF LinkTypeOK
<1>2. Head(down) \in Requests /\ Tail(down) \in Seq(Requests)
  BY <1>1, HeadTailProperties, Zenon
<1> QED
  BY <1>2 DEF Msg

\* The counters of execute_ota stay in their range, and a page below the size of
\* an image is one that BootGuard's Next considers.
LEMMA OffsetFacts ==
  /\ 0 \in Offsets /\ 1 \in Offsets
  /\ \A o \in Offsets : o < Syncs => o + 1 \in Offsets
  /\ \A o \in Offsets, i \in Image : o + 1 < Size[i] => o + 1 \in Offsets
  /\ \A o \in Offsets, i \in Image : o < Size[i] => o \in 0..Block
<1>1. \A i \in Image : Size[i] \in 1..Block
  BY ContentFacts
<1>2. Block \in Nat /\ Syncs \in Nat /\ 1 <= Syncs
  OBVIOUS
<1>3. \A o : o \in Offsets <=> o \in Nat /\ (o <= Block \/ o <= Syncs)
  BY <1>2 DEF Offsets
<1>4. 0 \in Offsets /\ 1 \in Offsets
  BY <1>2, <1>3
<1>5. ASSUME NEW o \in Offsets, o < Syncs PROVE o + 1 \in Offsets
  BY <1>2, <1>3, <1>5
<1>6. ASSUME NEW o \in Offsets, NEW i \in Image, o + 1 < Size[i] PROVE o + 1 \in Offsets
  BY <1>1, <1>2, <1>3, <1>6
<1>7. ASSUME NEW o \in Offsets, NEW i \in Image, o < Size[i] PROVE o \in 0..Block
  BY <1>1, <1>2, <1>3, <1>7
<1> QED
  BY <1>4, <1>5, <1>6, <1>7

LEMMA EspIsStutter ==
  ASSUME Esp \/ User \/ EspReset \/ LoseRequest \/ LoseAnswer
  PROVE  UNCHANGED vars
<1>1. CASE Receive
  BY <1>1 DEF Receive
<1>2. CASE AfterBackup
  BY <1>2 DEF AfterBackup
<1>3. CASE AfterStaging
  BY <1>3 DEF AfterStaging
<1>4. CASE StagingFails
  BY <1>4 DEF StagingFails
<1>5. CASE EnterDone
  BY <1>5 DEF EnterDone
<1>6. CASE SyncFails
  BY <1>6 DEF SyncFails
<1>7. CASE RomAnswer
  BY <1>7 DEF RomAnswer
<1>8. CASE RomFails
  BY <1>8 DEF RomFails
<1>9. CASE Learn
  BY <1>9 DEF Learn
<1>10. CASE User
  BY <1>10 DEF User, Start
<1>11. CASE EspReset \/ LoseRequest \/ LoseAnswer
  BY <1>11 DEF EspReset, LoseRequest, LoseAnswer
<1> QED
  BY <1>1, <1>2, <1>3, <1>4, <1>5, <1>6, <1>7, <1>8, <1>9, <1>10, <1>11 DEF Esp

LEMMA GdIsBootGuard ==
  ASSUME LinkTypeOK, Gd
  PROVE  [Next]_vars
<1>1. CASE GdNoFlash \/ GdVerify \/ GdSync \/ GdIgnores
  BY <1>1 DEF GdNoFlash, GdVerify, GdSync, GdIgnores
<1>2. CASE GdBackup
  <2>1. B \in Slot
    BY DEF Slot, B
  <2> QED
    BY <1>2, <2>1 DEF GdBackup, Next, Host
<1>3. CASE GdEraseStaging
  BY <1>3 DEF GdEraseStaging, Next, Host
<1>4. CASE GdWriteStaging
  <2>1. /\ CmdWriteStaging(Msg.img, Msg.page)
        /\ Msg.img \in Image /\ Msg.page \in Offsets
    BY <1>4, MsgType DEF GdWriteStaging, Takes, Requests
  <2>2. Msg.page \in 0..Block
    BY <2>1, OffsetFacts DEF CmdWriteStaging
  <2> QED
    BY <2>1, <2>2 DEF Next, Host
<1>5. CASE GdEnter
  BY <1>5 DEF GdEnter, Next, Host
<1>6. CASE GdErase \/ GdGo
  BY <1>6 DEF GdErase, GdGo, Next, Host
<1>7. CASE GdWrite
  <2>1. /\ FlWrite(Msg.img, Msg.page)
        /\ Msg.img \in Image /\ Msg.page \in Offsets
    BY <1>7, MsgType DEF GdWrite, Takes, Requests
  <2>2. Msg.page \in 0..Block
    BY <2>1, OffsetFacts DEF FlWrite
  <2> QED
    BY <2>1, <2>2 DEF Next, Host
<1>8. CASE GdFirmware \/ GdCrash
  BY <1>8 DEF GdFirmware, GdCrash, Next
<1> QED
  BY <1>1, <1>2, <1>3, <1>4, <1>5, <1>6, <1>7, <1>8 DEF Gd

LEMMA StepIsBootGuard ==
  ASSUME LinkTypeOK, [OtaNext]_allVars
  PROVE  [Next]_vars
<1>1. CASE User \/ Esp \/ EspReset \/ LoseRequest \/ LoseAnswer
  BY <1>1, EspIsStutter
<1>2. CASE Gd
  BY <1>2, GdIsBootGuard
<1>3. CASE SupplyFails \/ SupplyBack
  BY <1>3 DEF SupplyFails, SupplyBack, Next
<1>4. CASE UNCHANGED allVars
  BY <1>4 DEF allVars
<1> QED
  BY <1>1, <1>2, <1>3, <1>4 DEF OtaNext
-----------------------------------------------------------------------------
(* The types of the link and of execute_ota's state. *)

\* What the ESP32 sends is a request, and a page it writes is one of the image's.
LEMMA SendType ==
  ASSUME LinkTypeOK, NEW s \in Stages \ {"idle"}, NEW p \in Offsets
  PROVE  Send(s, p) => down' \in Seq(Requests)
<1>1. Request(s, img, p) \in Requests
  BY DEF LinkTypeOK, Request, Requests
<1> QED
  BY <1>1, AppendProperties DEF LinkTypeOK, Send

LEMMA AskType ==
  ASSUME LinkTypeOK, NEW s \in Stages \ {"idle"}, NEW p \in Offsets,
         Ask(s, p)
  PROVE  /\ stage' \in Stages /\ off' \in Offsets
         /\ ack' \in Answers /\ down' \in Seq(Requests)
BY SendType DEF Ask, NoAck, FlashAck, Answers, SpiStages

LEMMA LinkTypeInit == OtaInit => LinkTypeOK
<1>1. <<>> \in Seq(Requests) /\ <<>> \in Seq(Answers)
  OBVIOUS
<1>2. NoAck \in Answers
  BY DEF NoAck, FlashAck, Answers
<1>3. 0 \in 0..MaxUpsets
  OBVIOUS
<1> QED
  BY <1>1, <1>2, <1>3, OffsetFacts DEF OtaInit, LinkTypeOK, Stages, Results

LEMMA EspKeepsTypes ==
  ASSUME LinkTypeOK, Esp \/ User \/ EspReset
  PROVE  LinkTypeOK'
<1>0. /\ <<>> \in Seq(Answers) /\ NoAck \in Answers
      /\ up # <<>> => Head(up) \in Answers /\ Tail(up) \in Seq(Answers)
  <2>1. up # <<>> => Head(up) \in Answers /\ Tail(up) \in Seq(Answers)
    BY HeadTailProperties, Zenon DEF LinkTypeOK
  <2> QED
    BY <2>1 DEF NoAck, FlashAck, Answers
<1>1. CASE Receive
  BY <1>0, <1>1 DEF Receive, LinkTypeOK
<1>2. CASE AfterBackup
  <2> DEFINE Same == ack.cmd = "backup" /\ ack.good /\ ack.img = img
  <2>1. CASE Same
    BY <1>2, <2>1 DEF AfterBackup, Finish, LinkTypeOK, Stages, Results
  <2>2. CASE ~Same
    <3>1. Ask("stageErase", 0) /\ UNCHANGED <<img, viaSpi, known, res, up, upsets>>
      BY <1>2, <2>2 DEF AfterBackup
    <3>2. "stageErase" \in Stages \ {"idle"} /\ 0 \in Offsets
      BY OffsetFacts DEF Stages, SpiStages
    <3> QED
      BY <3>1, <3>2, AskType DEF LinkTypeOK
  <2> QED
    BY <2>1, <2>2
<1>3. CASE AfterStaging
  <2>1. PICK s \in {"stageWrite", "stageVerify", "enter"}, p \in Offsets : Ask(s, p)
    BY <1>3, OffsetFacts DEF AfterStaging, LinkTypeOK
  <2>2. s \in Stages \ {"idle"}
    BY DEF Stages, SpiStages
  <2>3. up' \in Seq(Answers)
    BY <1>0, <1>3 DEF AfterStaging, LinkTypeOK
  <2> QED
    BY <1>3, <2>1, <2>2, <2>3, AskType DEF AfterStaging, LinkTypeOK
<1>4. CASE StagingFails
  BY <1>4 DEF StagingFails, Finish, LinkTypeOK, Stages, Results
<1>5. CASE EnterDone
  BY <1>0, <1>5, AskType, OffsetFacts DEF EnterDone, LinkTypeOK, Stages, RomStages
<1>6. CASE SyncFails
  <2>1. CASE off < Syncs
    <3>1. Ask("sync", off + 1) /\ off + 1 \in Offsets
      BY <1>6, <2>1, OffsetFacts DEF SyncFails, LinkTypeOK
    <3> QED
      BY <1>0, <1>6, <2>1, <3>1, AskType DEF SyncFails, LinkTypeOK, Stages, RomStages
  <2>2. CASE ~(off < Syncs)
    BY <1>0, <1>6, <2>2 DEF SyncFails, Finish, LinkTypeOK, Stages, Results
  <2> QED
    BY <2>1, <2>2
<1>7. CASE RomAnswer
  <2>1. CASE stage = "go"
    BY <1>0, <1>7, <2>1 DEF RomAnswer, LinkTypeOK, Stages, Results
  <2>2. CASE stage # "go"
    <3>1. PICK s \in {"erase", "write", "go"}, p \in Offsets : Ask(s, p)
      BY <1>7, <2>2, OffsetFacts DEF RomAnswer, LinkTypeOK
    <3>2. s \in Stages \ {"idle"} /\ UNCHANGED res
      BY <1>7, <2>2 DEF RomAnswer, Stages, RomStages
    <3> QED
      BY <1>0, <1>7, <3>1, <3>2, AskType DEF RomAnswer, LinkTypeOK
  <2> QED
    BY <2>1, <2>2
<1>8. CASE RomFails
  BY <1>0, <1>8 DEF RomFails, Finish, LinkTypeOK, Stages, Results
<1>9. CASE Learn
  BY <1>9 DEF Learn, link, LinkTypeOK
<1>10. CASE User
  <2>1. PICK i \in Image : Start(i)
    BY <1>10 DEF User
  <2>2. \A s \in {"backup", "enter"} : Request(s, i, 0) \in Requests
    BY OffsetFacts DEF Request, Requests, Stages, SpiStages
  <2>3. PICK s \in {"backup", "enter"} :
          stage' = s /\ down' = Append(down, Request(s, i, 0))
    BY <2>1 DEF Start
  <2>4. down' \in Seq(Requests) /\ stage' \in Stages
    BY <2>2, <2>3, AppendProperties DEF LinkTypeOK, Stages, SpiStages
  <2> QED
    BY <1>0, <2>1, <2>4, OffsetFacts DEF Start, LinkTypeOK, Results
<1>11. CASE EspReset
  <2>1. upsets' \in 0..MaxUpsets
    BY <1>11 DEF EspReset, LinkTypeOK
  <2> QED
    BY <1>0, <1>11, <2>1, OffsetFacts DEF EspReset, LinkTypeOK, Stages, Results
<1> QED
  BY <1>1, <1>2, <1>3, <1>4, <1>5, <1>6, <1>7, <1>8, <1>9, <1>10, <1>11 DEF Esp

\* The backup's answer carries the image that was copied, which is one.
LEMMA GdKeepsTypes ==
  ASSUME TypeOK, LinkTypeOK, Gd
  PROVE  LinkTypeOK'
<1>0. /\ \A a \in Answers : Append(up, a) \in Seq(Answers)
      /\ \A g \in BOOLEAN : Rom(g) \in Answers
      /\ EnterAck \in Answers
      /\ \A m \in SpiStages, g \in BOOLEAN, i \in Image \cup {NoImage} :
           FlashAck(m, g, i) \in Answers
  <2>1. \A a \in Answers : Append(up, a) \in Seq(Answers)
    BY AppendProperties DEF LinkTypeOK
  <2> QED
    BY <2>1 DEF Rom, EnterAck, FlashAck, Answers
<1>00. SpiStages = {"backup", "stageErase", "stageWrite", "stageVerify"} /\ Worked \in BOOLEAN
  BY DEF SpiStages, Worked
<1>000. UNCHANGED <<stage, img, off, ack, viaSpi, known, res, upsets>>
  BY DEF Gd, esp
<1>1. \A m : Takes(m) => down' \in Seq(Requests)
  BY MsgType DEF Takes
<1>2. CASE GdNoFlash
  BY <1>0, <1>000, <1>1, <1>2 DEF GdNoFlash, Reply, LinkTypeOK
<1>3. CASE GdBackup
  BY <1>000, <1>1, <1>3 DEF GdBackup, LinkTypeOK
<1>4. CASE GdEraseStaging
  BY <1>0, <1>00, <1>000, <1>1, <1>4 DEF GdEraseStaging, Reply, LinkTypeOK
<1>5. CASE GdWriteStaging
  BY <1>0, <1>00, <1>000, <1>1, <1>5 DEF GdWriteStaging, Reply, LinkTypeOK
<1>6. CASE GdVerify
  BY <1>0, <1>00, <1>000, <1>1, <1>6 DEF GdVerify, Reply, LinkTypeOK
<1>7. CASE GdEnter
  <2>1. Len(down) > 1 => <<down[Len(down)]>> \in Seq(Requests)
    BY DEF LinkTypeOK
  <2>2. down' \in Seq(Requests)
    <3>1. <<>> \in Seq(Requests)
      OBVIOUS
    <3> QED
      BY <1>7, <2>1, <3>1 DEF GdEnter
  <2>3. up' \in Seq(Answers)
    BY <1>0, <1>7 DEF GdEnter, Reply
  <2>4. viaSpi' \in BOOLEAN
    BY <1>000 DEF LinkTypeOK
  <2> QED
    BY <1>000, <2>2, <2>3, <2>4 DEF LinkTypeOK
<1>8. CASE GdSync \/ GdGo
  BY <1>0, <1>000, <1>1, <1>8 DEF GdSync, GdGo, Reply, LinkTypeOK
<1>9. CASE GdErase \/ GdWrite
  BY <1>0, <1>00, <1>000, <1>1, <1>9 DEF GdErase, GdWrite, Reply, LinkTypeOK
<1>10. CASE GdIgnores
  BY <1>000, <1>1, <1>10 DEF GdIgnores, LinkTypeOK
<1>11. CASE GdFirmware
  <2>1. flash.img \in Image \cup {NoImage}
    BY DEF TypeOK, Content
  <2>2. /\ FlashAck("backup", TRUE, flash.img) \in Answers
        /\ FlashAck("backup", FALSE, NoImage) \in Answers
    BY <1>0, <1>00, <2>1
  <2> QED
    BY <1>0, <1>000, <1>11, <2>2 DEF GdFirmware, LinkTypeOK
<1>12. CASE GdCrash
  BY <1>000, <1>12 DEF GdCrash, LinkTypeOK
<1> QED
  BY <1>2, <1>3, <1>4, <1>5, <1>6, <1>7, <1>8, <1>9, <1>10, <1>11, <1>12 DEF Gd

LEMMA LinkKeepsTypes ==
  ASSUME LinkTypeOK, LoseRequest \/ LoseAnswer \/ SupplyFails \/ SupplyBack
  PROVE  LinkTypeOK'
<1>0. /\ NoAck \in Answers /\ Rom(FALSE) \in Answers
      /\ \A a \in Answers : Append(up, a) \in Seq(Answers)
  BY AppendProperties DEF NoAck, FlashAck, Rom, Answers, LinkTypeOK
<1>1. CASE LoseRequest
  <2>1. upsets' \in 0..MaxUpsets
    BY <1>1 DEF LoseRequest, LinkTypeOK
  <2> QED
    BY <1>0, <1>1, <2>1, MsgType DEF LoseRequest, Reply, esp, LinkTypeOK
<1>2. CASE LoseAnswer
  <2>1. upsets' \in 0..MaxUpsets
    BY <1>2 DEF LoseAnswer, LinkTypeOK
  <2>2. Tail(up) \in Seq(Answers)
    BY <1>2, HeadTailProperties DEF LoseAnswer, LinkTypeOK
  <2> QED
    BY <1>2, <2>1, <2>2 DEF LoseAnswer, esp, LinkTypeOK
<1>3. CASE SupplyFails
  <2>1. <<>> \in Seq(Requests) /\ <<>> \in Seq(Answers)
    OBVIOUS
  <2>2. /\ stage' \in Stages /\ res' \in Results
        /\ known' \in {"unknown", "yes", "no"} /\ viaSpi' \in BOOLEAN
    BY <1>3 DEF SupplyFails, Stages, Results
  <2> QED
    BY <1>0, <1>3, <2>1, <2>2, OffsetFacts DEF SupplyFails, LinkTypeOK
<1>4. CASE SupplyBack
  BY <1>4 DEF SupplyBack, esp, link, LinkTypeOK
<1> QED
  BY <1>1, <1>2, <1>3, <1>4

-----------------------------------------------------------------------------
(* Theorems *)

\* What an update keeps: BootGuard's invariant, carried over step by step, and the
\* types of its own state, which need that invariant for the image in an answer.
LEMMA UpdateInvariantStep ==
  ASSUME IInv, LinkTypeOK, [OtaNext]_allVars
  PROVE  IInv' /\ LinkTypeOK'
<1>1. IInv'
  BY StepIsBootGuard, StepIInv
<1>2. TypeOK
  BY DEF IInv
<1>3. CASE UNCHANGED allVars
  <2>1. /\ stage' = stage /\ img' = img /\ off' = off /\ ack' = ack
        /\ viaSpi' = viaSpi /\ known' = known /\ res' = res
        /\ down' = down /\ up' = up /\ upsets' = upsets
    BY <1>3 DEF allVars, esp, link
  <2>2. viaSpi' \in BOOLEAN /\ ack' \in Answers
    BY <2>1 DEF LinkTypeOK
  <2>3. /\ stage' \in Stages /\ img' \in Image /\ off' \in Offsets
        /\ known' \in {"unknown", "yes", "no"} /\ res' \in Results
        /\ upsets' \in 0..MaxUpsets
    BY <2>1 DEF LinkTypeOK
  <2>4. down' \in Seq(Requests) /\ up' \in Seq(Answers)
    BY <2>1 DEF LinkTypeOK
  <2> QED
    BY <1>1, <2>2, <2>3, <2>4 DEF LinkTypeOK
<1> QED
  BY <1>1, <1>2, <1>3, EspKeepsTypes, GdKeepsTypes, LinkKeepsTypes DEF OtaNext

LEMMA UpdateInvariant == OtaSpec => [](IInv /\ LinkTypeOK)
<1>1. OtaInit => IInv /\ LinkTypeOK
  BY InitIInv, LinkTypeInit DEF OtaInit
<1>2. IInv /\ LinkTypeOK /\ [OtaNext]_allVars => (IInv /\ LinkTypeOK)'
  BY UpdateInvariantStep
<1> QED
  BY <1>1, <1>2, PTL DEF OtaSpec

\* Type correctness of an update: every message on the link names an image and a
\* page that exist, whatever was lost or answered late.
THEOREM UpdateTypeCorrect == OtaSpec => []OtaTypeOK
<1>1. IInv /\ LinkTypeOK => OtaTypeOK
  BY DEF IInv, LinkTypeOK, OtaTypeOK
<1> QED
  BY <1>1, UpdateInvariant, PTL

\* However an update is cut off, the superblock tells the truth about the slots,
\* the one the update backs up the running firmware to included.
THEOREM UpdateKeepsSuperblockTrue == OtaSpec => []EntriesTrue
<1>1. IInv /\ LinkTypeOK => EntriesTrue
  BY DEF IInv
<1> QED
  BY <1>1, UpdateInvariant, PTL

-----------------------------------------------------------------------------
(* The sequences of messages *)

LEMMA NothingSaid ==
  /\ \A C : AllIn(<<>>, C)
  /\ \A c : OnlyLast(<<>>, c) /\ ~Has(<<>>, c)
BY DEF AllIn, OnlyLast, Has

\* What is left when the first message is taken.
LEMMA Taken ==
  ASSUME NEW T, NEW q \in Seq(T), q # <<>>
  PROVE  /\ Head(q) = q[1] /\ 1 \in 1 .. Len(q)
         /\ Len(Tail(q)) = Len(q) - 1
         /\ \A i \in 1 .. Len(Tail(q)) : i + 1 \in 1 .. Len(q) /\ Tail(q)[i] = q[i + 1]
         /\ \A C : AllIn(q, C) => AllIn(Tail(q), C) /\ Head(q).cmd \in C
         /\ \A c : OnlyLast(q, c) => OnlyLast(Tail(q), c)
         /\ \A c : OnlyLast(q, c) /\ Head(q).cmd = c => Tail(q) = <<>>
         /\ \A c : Has(Tail(q), c) => Has(q, c)
         /\ Has(q, Head(q).cmd)
<1> DEFINE t == Tail(q)
<1>1. /\ Head(q) = q[1] /\ Len(q) \in Nat /\ Len(q) >= 1 /\ 1 \in 1 .. Len(q)
      /\ t \in Seq(T) /\ Len(t) = Len(q) - 1 /\ \A i \in 1 .. Len(t) : t[i] = q[i + 1]
  <2>1. Len(q) \in Nat \ {0}
    BY EmptySeq, Zenon
  <2> QED
    BY <2>1, HeadTailProperties
<1> HIDE DEF t
<1>2. \A i \in 1 .. Len(t) : i + 1 \in 1 .. Len(q) /\ t[i] = q[i + 1]
  BY <1>1
<1>3. ASSUME NEW C, AllIn(q, C) PROVE AllIn(t, C) /\ Head(q).cmd \in C
  BY <1>1, <1>2, <1>3, Zenon DEF AllIn
<1>4. ASSUME NEW c, OnlyLast(q, c) PROVE OnlyLast(t, c)
  <2> SUFFICES ASSUME NEW i \in 1 .. Len(t), t[i].cmd = c
               PROVE  i = Len(t)
    BY DEF OnlyLast
  <2>1. i + 1 = Len(q)
    BY <1>2, <1>4, Zenon DEF OnlyLast
  <2> QED
    BY <1>1, <2>1
<1>5. ASSUME NEW c, OnlyLast(q, c), Head(q).cmd = c PROVE t = <<>>
  <2>1. 1 = Len(q)
    BY <1>1, <1>5, Zenon DEF OnlyLast
  <2>2. Len(t) \notin Nat \ {0}
    BY <1>1, <2>1
  <2> QED
    BY <1>1, <2>2, EmptySeq, Zenon
<1>6. \A c : Has(t, c) => Has(q, c)
  BY <1>2 DEF Has
<1>7. Has(q, Head(q).cmd)
  BY <1>1 DEF Has
<1> QED
  BY <1>1, <1>2, <1>3, <1>4, <1>5, <1>6, <1>7, Zenon DEF t

\* What there is when another message has come.
LEMMA Added ==
  ASSUME NEW T, NEW q \in Seq(T), NEW x \in T
  PROVE  /\ Append(q, x) # <<>> /\ Len(Append(q, x)) = Len(q) + 1
         /\ Append(q, x)[Len(q) + 1] = x
         /\ \A i \in 1 .. Len(q) : Append(q, x)[i] = q[i]
         /\ \A C : AllIn(q, C) /\ x.cmd \in C => AllIn(Append(q, x), C)
         /\ \A c : ~Has(q, c) => OnlyLast(Append(q, x), c)
         /\ \A c : Has(Append(q, x), c) => Has(q, c) \/ x.cmd = c
<1>1. /\ Append(q, x) \in Seq(T) /\ Len(Append(q, x)) = Len(q) + 1 /\ Len(q) \in Nat
      /\ Append(q, x)[Len(q) + 1] = x
      /\ \A i \in 1 .. Len(q) : Append(q, x)[i] = q[i]
  BY AppendProperties
<1>2. Append(q, x) # <<>>
  BY AppendProperties
<1>3. \A C : AllIn(q, C) /\ x.cmd \in C => AllIn(Append(q, x), C)
  BY <1>1 DEF AllIn
<1>4. \A c : ~Has(q, c) => OnlyLast(Append(q, x), c)
  BY <1>1 DEF OnlyLast, Has
<1>5. \A c : Has(Append(q, x), c) => Has(q, c) \/ x.cmd = c
  BY <1>1 DEF Has
<1> QED
  BY <1>1, <1>2, <1>3, <1>4, <1>5

-----------------------------------------------------------------------------
(* What an update does to the board *)

\* BootGuard's actions that an update can take.
BoardStep ==
  \/ Firmware \/ Crash \/ PowerCut \/ PowerOn \/ CmdBackup(B) \/ CmdEnterBootloader
  \/ GdErase \/ GdWrite \/ GdGo \/ GdEraseStaging \/ GdWriteStaging

LEMMA StepOfTheBoard ==
  ASSUME LinkTypeOK, [OtaNext]_allVars
  PROVE  BoardStep \/ UNCHANGED vars
<1>1. CASE User \/ Esp \/ EspReset \/ LoseRequest \/ LoseAnswer
  BY <1>1, EspIsStutter
<1>2. CASE Gd
  BY <1>2 DEF Gd, BoardStep, GdNoFlash, GdBackup, GdVerify, GdEnter, GdSync, GdIgnores,
     GdFirmware, GdCrash
<1>3. CASE SupplyFails \/ SupplyBack
  BY <1>3 DEF SupplyFails, SupplyBack, BoardStep
<1>4. CASE UNCHANGED allVars
  BY <1>4 DEF allVars
<1> QED
  BY <1>1, <1>2, <1>3, <1>4 DEF OtaNext

\* The guard finds nothing on trial: it takes copies or starts the application.
LEMMA GuardAtRest ==
  ASSUME TypeOK, NoTrial
  PROVE  ~GuardCount /\ ~GuardRollback /\ ~RsErase /\ ~RsCopy /\ ~RsDone /\ ~RsFails
BY DEF TypeOK, NoTrial, GuardCount, GuardRollback, RsErase, RsCopy, RsDone, RsFails, RestorePcs,
   NoSb, Superblock

\* The record a backup or the guard goes on with is a confirmed one.
LEMMA ConfirmedRecord ==
  ASSUME TypeOK, NoTrial
  PROVE  /\ SbOrFresh.status = "CONFIRMED" /\ FreshSb.status = "CONFIRMED"
         /\ \A i : \A s \in Slot : [SbOrFresh EXCEPT !.entry[s] = i].status = "CONFIRMED"
<1>1. SbOrFresh \in Superblock /\ SbOrFresh.status = "CONFIRMED" /\ FreshSb.status = "CONFIRMED"
  BY SbOrFreshType DEF NoTrial, SbOrFresh, FreshSb
<1> QED
  BY <1>1 DEF Superblock

LEMMA ReturnNoTrial ==
  ASSUME TypeOK, NoTrial, Return, sb' \in {sb, NoSb} \/ (sb' = ram /\ pc \in SbPcs)
  PROVE  NoTrial'
BY DEF NoTrial, Return, StartBackup, EndTask, RestorePcs, BackupPcs, SbPcs, A, B

LEMMA StepNoTrial ==
  ASSUME TypeOK, LinkTypeOK, NoTrial, [OtaNext]_allVars
  PROVE  NoTrial'
<1>1. CASE Firmware
  <2>1. CASE BkErase \/ BkProgram \/ SbErase
    BY <2>1 DEF BkErase, BkProgram, SbErase, NoTrial, BackupPcs, SbPcs, RestorePcs
  <2>2. CASE BkEraseFails \/ BkProgramFails \/ BkVerifyFails \/ SbEraseFails \/ SbProgram
             \/ SbProgramFails
    <3>1. Return /\ (sb' \in {sb, NoSb} \/ (sb' = ram /\ pc \in SbPcs))
      BY <2>2 DEF BkEraseFails, BkProgramFails, BkVerifyFails, SbEraseFails, SbProgram,
         SbProgramFails, SbPcs
    <3> QED
      BY <3>1, ReturnNoTrial
  <2>3. CASE BkVerify
    <3>1. ram'.status = "CONFIRMED"
      BY <2>3, ConfirmedRecord DEF BkVerify, StartSbWrite, TypeOK
    <3> QED
      BY <2>3, <3>1 DEF BkVerify, StartSbWrite, NoTrial, BackupPcs, SbPcs, RestorePcs
  <2>4. CASE GuardNoFlash \/ GuardFirstBoot \/ GuardConfirmed
    BY <2>4 DEF GuardNoFlash, GuardFirstBoot, GuardConfirmed, AtGuard, StartBackup, NoTrial, BackupPcs,
       SbPcs, RestorePcs, A, B
  <2> QED
    BY <1>1, <2>1, <2>2, <2>3, <2>4, GuardAtRest DEF Firmware
<1>2. CASE Crash \/ PowerCut \/ PowerOn
  BY <1>2 DEF Crash, PowerCut, PowerOn, ResetInto, EndTask, NoTrial, BackupPcs, SbPcs, RestorePcs
<1>3. CASE CmdBackup(B) \/ CmdEnterBootloader
  BY <1>3 DEF CmdBackup, CmdEnterBootloader, StartBackup, Accepts, NoTrial, BackupPcs, SbPcs, RestorePcs
<1>4. CASE GdErase \/ GdWrite \/ GdGo
  BY <1>4 DEF GdErase, GdWrite, GdGo, FlErase, FlWrite, FlGo, ResetInto, NoTrial, BackupPcs, SbPcs, RestorePcs
<1>5. CASE GdEraseStaging \/ GdWriteStaging
  BY <1>5 DEF GdEraseStaging, GdWriteStaging, CmdEraseStaging, CmdWriteStaging, NoTrial
<1>6. CASE UNCHANGED vars
  BY <1>6 DEF vars, NoTrial
<1> QED
  BY <1>1, <1>2, <1>3, <1>4, <1>5, <1>6, StepOfTheBoard DEF BoardStep

-----------------------------------------------------------------------------
(* The ESP32's steps *)

Talk ==
  /\ Asked /\ AnsweredLast /\ AcksTrue /\ SyncOnce /\ RomSteps
  /\ OkMeansFlashed /\ StagedFirst

\* A command sent into an idle link is all there is on it.
LEMMA Alone ==
  ASSUME NEW x
  PROVE  /\ Append(<<>>, x) = <<x>> /\ Len(<<x>>) = 1 /\ <<x>>[1] = x /\ Head(<<x>>) = x
         /\ Tail(<<x>>) = <<>> /\ <<x>> # <<>> /\ \A i \in 1 .. Len(<<x>>) : <<x>>[i] = x
         /\ \A C : x.cmd \in C => AllIn(<<x>>, C)
         /\ \A c : OnlyLast(<<x>>, c)
<1>1. Append(<<>>, x) = <<x>> /\ Len(<<x>>) = 1 /\ <<x>>[1] = x /\ Head(<<x>>) = x /\ Tail(<<x>>) = <<>>
  OBVIOUS
<1>2. \A i \in 1 .. Len(<<x>>) : i = 1
  BY <1>1
<1> QED
  BY <1>1, <1>2, Zenon DEF AllIn, OnlyLast

LEMMA AskAlone ==
  ASSUME down = <<>>, NEW s, NEW p, Ask(s, p)
  PROVE  /\ Len(down') = 1 /\ Head(down') = Request(s, img, p) /\ down'[1] = Request(s, img, p)
         /\ down' # <<>> /\ AllIn(down', {s}) /\ OnlyLast(down', s)
         /\ \A i \in 1 .. Len(down') : down'[i].img = img
<1>1. down' = << Request(s, img, p) >>
  BY Alone DEF Ask, Send
<1>2. Request(s, img, p).cmd = s /\ Request(s, img, p).img = img
  BY DEF Request
<1> QED
  BY <1>1, <1>2, Alone, Zenon

\* The head of what came is what the stage waits for, or an older answer.
LEMMA ReceiveKeeps ==
  ASSUME LinkTypeOK, Talk, Receive
  PROVE  Talk'
<1>1. /\ stage \in SpiStages /\ ack.cmd # stage /\ up # <<>> /\ up' = Tail(up)
      /\ ack' = (IF Head(up).cmd \in SpiStages THEN Head(up) ELSE ack)
      /\ UNCHANGED <<stage, img, off, viaSpi, known, res, down, upsets>> /\ UNCHANGED vars
  BY DEF Receive
<1>2. UNCHANGED <<flash, slot, sb, pc, task>>
  BY <1>1 DEF vars
<1>3. up \in Seq(Answers)
  BY DEF LinkTypeOK
<1>4. /\ Head(up) = up[1] /\ 1 \in 1 .. Len(up) /\ Has(up, Head(up).cmd)
      /\ \A i \in 1 .. Len(up') : i + 1 \in 1 .. Len(up) /\ up'[i] = up[i + 1]
      /\ OnlyLast(up, stage) => OnlyLast(up', stage)
      /\ OnlyLast(up, stage) /\ Head(up).cmd = stage => up' = <<>>
      /\ Has(up', stage) => Has(up, stage)
  BY <1>1, <1>3, Taken, Zenon
<1>5. Asked'
  BY <1>1, <1>2 DEF Talk, Asked, Sayable, AllIn, OnlyLast
<1>6. AnsweredLast'
  <2>0. CASE stage = "backup"
    <3>1. ~Has(up', "stageErase")
      BY <1>1, <1>3, <2>0, Taken, Zenon DEF Talk, AnsweredLast
    <3> QED
      BY <1>1, <2>0, <3>1 DEF AnsweredLast
  <2> SUFFICES ASSUME stage # "backup" PROVE AnsweredLast'
    BY <2>0
  <2>1. Has(up, stage) => OnlyLast(up, stage) /\ down = <<>> /\ task # "cmdBackup"
    BY <1>1 DEF Talk, AnsweredLast
  <2>2. CASE Head(up).cmd = stage
    BY <1>1, <1>2, <1>4, <2>1, <2>2, NothingSaid DEF AnsweredLast
  <2>3. CASE Head(up).cmd # stage
    <3>1. ack'.cmd # stage
      BY <1>1, <2>3
    <3> QED
      BY <1>1, <1>2, <1>4, <2>1, <3>1 DEF AnsweredLast
  <2> QED
    BY <2>2, <2>3
<1>7. AcksTrue'
  <2>1. Says(ack) /\ \A i \in 1 .. Len(up) : Says(up[i])
    BY <1>1 DEF Talk, AcksTrue
  <2>2. Says(ack') /\ \A i \in 1 .. Len(up') : Says(up'[i])
    BY <1>1, <1>4, <2>1
  <2> QED
    BY <1>1, <1>2, <2>2 DEF AcksTrue, Says
<1> QED
  BY <1>1, <1>2, <1>5, <1>6, <1>7
  DEF Talk, SyncOnce, RomSteps, OkMeansFlashed, StagedFirst, SpiStages, RomStages, Full

LEMMA AfterBackupKeeps ==
  ASSUME LinkTypeOK, Talk, AfterBackup
  PROVE  Talk'
<1>1. stage = "backup" /\ UNCHANGED <<img, viaSpi, known, up, upsets>> /\ UNCHANGED vars
  BY DEF AfterBackup, Finish
<1>2. UNCHANGED <<flash, slot, sb, pc, task>>
  BY <1>1 DEF vars
<1>3. AllIn(down, {"backup"}) /\ \A i \in 1 .. Len(down) : down[i].img = img
  BY <1>1 DEF Talk, Asked, Sayable
<1>4. CASE ack.cmd = "backup" /\ ack.good /\ ack.img = img
  <2>1. stage' = "idle" /\ res' = "upToDate" /\ UNCHANGED <<ack, down>>
    BY <1>4 DEF AfterBackup, Finish
  <2>2. flash = Full(img)
    BY <1>1, <1>4 DEF Talk, AcksTrue, Says, SpiStages
  <2>3. Asked'
    BY <1>3, <2>1 DEF Asked, Sayable, AllIn, Stages, SpiStages
  <2> QED
    BY <1>1, <1>2, <2>1, <2>2, <2>3
    DEF Talk, AnsweredLast, AcksTrue, SyncOnce, RomSteps, OkMeansFlashed, StagedFirst, SpiStages, RomStages, Full
<1>5. CASE ~(ack.cmd = "backup" /\ ack.good /\ ack.img = img)
  <2>1. Ask("stageErase", 0) /\ res' = res
    BY <1>5 DEF AfterBackup
  <2>2. stage' = "stageErase" /\ ack' = NoAck /\ down' = Append(down, Request("stageErase", img, 0))
    BY <2>1 DEF Ask, Send
  <2> DEFINE r == Request("stageErase", img, 0)
  <2>3. /\ r.cmd = "stageErase" /\ r.img = img /\ r \in Requests /\ down \in Seq(Requests)
        /\ r.cmd \in {"backup", "stageErase"}
    BY OffsetFacts DEF Request, Requests, LinkTypeOK, Stages, SpiStages
  <2> HIDE DEF r
  <2>4. ~Has(down, "stageErase") /\ AllIn(down, {"backup", "stageErase"})
    BY <1>3 DEF Has, AllIn
  <2>5. /\ AllIn(down', {"backup", "stageErase"}) /\ OnlyLast(down', "stageErase")
        /\ Len(down') = Len(down) + 1 /\ down'[Len(down) + 1] = r
        /\ \A i \in 1 .. Len(down) : down'[i] = down[i]
    <3>1. down' = Append(down, r)
      BY <2>2 DEF r
    <3>2. \A C : AllIn(down, C) /\ r.cmd \in C => AllIn(Append(down, r), C)
      BY <2>3, Added, Zenon
    <3>3. /\ OnlyLast(Append(down, r), "stageErase") /\ Len(Append(down, r)) = Len(down) + 1
          /\ Append(down, r)[Len(down) + 1] = r
          /\ \A i \in 1 .. Len(down) : Append(down, r)[i] = down[i]
      BY <2>3, <2>4, Added
    <3> QED
      BY <2>3, <2>4, <3>1, <3>2, <3>3, Zenon
  <2>6. \A i \in 1 .. Len(down') : down'[i].img = img
    BY <1>3, <2>3, <2>5 DEF LinkTypeOK
  <2>7. Asked'
    BY <1>1, <2>2, <2>5, <2>6 DEF Asked, Sayable
  <2>8. AnsweredLast'
    BY <1>1, <2>2 DEF Talk, AnsweredLast, NoAck, FlashAck
  <2>9. AcksTrue'
    BY <1>1, <1>2, <2>2 DEF Talk, AcksTrue, Says, NoAck, FlashAck, SpiStages, Full
  <2> QED
    BY <1>1, <1>2, <2>2, <2>7, <2>8, <2>9
    DEF Talk, SyncOnce, RomSteps, OkMeansFlashed, StagedFirst, SpiStages, RomStages
<1> QED
  BY <1>4, <1>5

\* Nothing is claimed of an attempt that is over without success.
LEMMA OverTalk ==
  ASSUME LinkTypeOK', stage' = "idle", res' \notin {"ok", "upToDate"}
  PROVE  Talk'
<1>1. AllIn(down', Stages)
  <2>1. \A i \in 1 .. Len(down') : down'[i] \in Requests
    BY ElementOfSeq DEF LinkTypeOK
  <2> QED
    BY <2>1 DEF Requests, AllIn
<1> QED
  BY <1>1 DEF Talk, Asked, Sayable, AnsweredLast, AcksTrue, SyncOnce, RomSteps, OkMeansFlashed,
     StagedFirst, SpiStages, RomStages, Stages

\* The next command goes out when the last one has been answered.
LEMMA AskedAlone ==
  ASSUME down = <<>>, task # "cmdBackup", NEW s \in Stages \ {"idle", "backup"}, NEW p, Ask(s, p),
         img' = img, task' = task
  PROVE  /\ Asked' /\ stage' = s /\ off' = p /\ ack' = NoAck
         /\ Len(down') = 1 /\ Head(down') = Request(s, img, p) /\ down'[1] = Request(s, img, p)
         /\ AllIn(down', {s})
<1>1. /\ Len(down') = 1 /\ Head(down') = Request(s, img, p) /\ down'[1] = Request(s, img, p)
      /\ AllIn(down', {s}) /\ OnlyLast(down', s) /\ \A i \in 1 .. Len(down') : down'[i].img = img
  BY AskAlone
<1>2. stage' = s /\ off' = p /\ ack' = NoAck
  BY DEF Ask
<1>3. AllIn(down', Sayable')
  BY <1>1, <1>2 DEF AllIn, Sayable
<1>4. Asked'
  BY <1>1, <1>2, <1>3 DEF Asked
<1> QED
  BY <1>1, <1>2, <1>4

LEMMA AfterStagingKeeps ==
  ASSUME LinkTypeOK, Talk, AfterStaging
  PROVE  Talk'
<1>1. /\ stage \in {"stageErase", "stageWrite", "stageVerify"} /\ ack.cmd = stage /\ ack.good
      /\ UNCHANGED <<img, viaSpi, known, res, upsets>> /\ UNCHANGED vars
  BY DEF AfterStaging, Answered, SpiStages
<1>2. UNCHANGED <<flash, slot, sb, pc, task>>
  BY <1>1 DEF vars
<1>3. up = <<>> /\ down = <<>> /\ task # "cmdBackup"
  BY <1>1 DEF Talk, AnsweredLast, SpiStages
<1>4. up' = <<>>
  BY <1>3 DEF AfterStaging
<1>5. CASE stage # "stageVerify"
  <2>1. PICK s \in {"stageWrite", "stageVerify"}, p \in Nat : Ask(s, p)
    BY <1>5 DEF AfterStaging, LinkTypeOK, Offsets
  <2>2. s \in Stages \ {"idle", "backup"}
    BY DEF Stages, SpiStages
  <2>3. Asked' /\ stage' = s /\ ack' = NoAck
    BY <1>1, <1>2, <1>3, <2>1, <2>2, AskedAlone
  <2>4. AnsweredLast' /\ AcksTrue'
    BY <1>4, <2>3, NothingSaid DEF AnsweredLast, AcksTrue, Says, NoAck, FlashAck
  <2> QED
    BY <2>3, <2>4 DEF Talk, SyncOnce, RomSteps, OkMeansFlashed, StagedFirst, RomStages
<1>6. CASE stage = "stageVerify"
  <2>1. Ask("enter", 0)
    BY <1>6 DEF AfterStaging
  <2>2. "enter" \in Stages \ {"idle", "backup"}
    BY DEF Stages
  <2>3. Asked' /\ stage' = "enter"
    BY <1>1, <1>2, <1>3, <2>1, <2>2, AskedAlone
  <2>4. slot[S] = Full(img)
    BY <1>1, <1>6 DEF Talk, AcksTrue, Says, SpiStages
  <2> QED
    BY <1>1, <1>2, <2>3, <2>4
    DEF Talk, AnsweredLast, AcksTrue, SyncOnce, RomSteps, OkMeansFlashed, StagedFirst, SpiStages, Full
<1> QED
  BY <1>5, <1>6

LEMMA EnterDoneKeeps ==
  ASSUME LinkTypeOK, Talk, EnterDone
  PROVE  Talk'
<1>1. /\ stage = "enter" /\ Settled /\ Ask("sync", 1) /\ up' = <<>>
      /\ UNCHANGED <<img, viaSpi, known, res, upsets>> /\ UNCHANGED vars
  BY DEF EnterDone
<1>2. UNCHANGED <<flash, slot, sb, pc, task>>
  BY <1>1 DEF vars
<1> DEFINE r == Request("sync", img, 1)
<1>3. /\ stage' = "sync" /\ off' = 1 /\ ack' = NoAck /\ down' = Append(down, r)
      /\ r.cmd = "sync" /\ r.img = img /\ r \in Requests /\ down \in Seq(Requests)
  BY <1>1, OffsetFacts DEF Ask, Send, Request, Requests, LinkTypeOK, Stages, RomStages
<1> HIDE DEF r
<1>4. AllIn(down, {"enter", "sync"}) /\ \A i \in 1 .. Len(down) : down[i].img = img
  BY <1>1 DEF Talk, Asked, Sayable, AllIn
<1>5. /\ down' # <<>> /\ Len(down') = Len(down) + 1 /\ down'[Len(down) + 1] = r
      /\ \A i \in 1 .. Len(down) : down'[i] = down[i]
      /\ AllIn(down', {"enter", "sync"})
  BY <1>3, <1>4, Added
<1>6. Asked'
  <2>1. \A i \in 1 .. Len(down') : down'[i].img = img
    BY <1>3, <1>4, <1>5 DEF LinkTypeOK
  <2> QED
    BY <1>1, <1>2, <1>3, <1>5, <2>1 DEF Talk, Asked, Sayable, Stages, RomStages
<1>7. SyncOnce'
  <2>1. pc = "flasher" => down = <<>>
    BY <1>1 DEF Settled
  <2>2. pc = "flasher" => Len(down') <= 1 /\ AllIn(down', {"sync"})
    BY <1>3, <2>1, Alone
  <2>3. down'[Len(down')].cmd = "sync"
    BY <1>3, <1>5
  <2> QED
    BY <1>1, <1>2, <2>2, <2>3, NothingSaid DEF SyncOnce
<1> QED
  BY <1>1, <1>2, <1>3, <1>6, <1>7
  DEF Talk, AnsweredLast, AcksTrue, RomSteps, OkMeansFlashed, StagedFirst, SpiStages, RomStages, Full

LEMMA SyncFailsKeeps ==
  ASSUME LinkTypeOK, LinkTypeOK', Talk, SyncFails
  PROVE  Talk'
<1>1. /\ stage = "sync" /\ Settled /\ up' = <<>> /\ UNCHANGED vars /\ img' = img
      /\ off < Syncs => Ask("sync", off + 1) /\ UNCHANGED <<img, viaSpi, known, res>>
      /\ ~(off < Syncs) => Finish("error")
  BY DEF SyncFails, Finish
<1>2. UNCHANGED <<flash, slot, sb, pc, task>>
  BY <1>1 DEF vars
<1>3. CASE ~(off < Syncs)
  BY <1>1, <1>3, OverTalk DEF Finish
<1>4. CASE off < Syncs
  <2> DEFINE r == Request("sync", img, off + 1)
  <2>1. /\ stage' = "sync" /\ down' = Append(down, r) /\ viaSpi' = viaSpi /\ res' = res
        /\ r.cmd = "sync" /\ r.img = img /\ r \in Requests /\ down \in Seq(Requests)
    BY <1>1, <1>4, OffsetFacts DEF Ask, Send, Request, Requests, LinkTypeOK, Stages, RomStages
  <2> HIDE DEF r
  <2>2. AllIn(down, {"enter", "sync"}) /\ \A i \in 1 .. Len(down) : down[i].img = img
    BY <1>1 DEF Talk, Asked, Sayable
  <2>3. /\ down' # <<>> /\ Len(down') = Len(down) + 1 /\ down'[Len(down) + 1] = r
        /\ \A i \in 1 .. Len(down) : down'[i] = down[i]
        /\ AllIn(down', {"enter", "sync"})
    BY <2>1, <2>2, Added
  <2>4. Asked'
    <3>1. \A i \in 1 .. Len(down') : down'[i].img = img
      BY <2>1, <2>2, <2>3 DEF LinkTypeOK
    <3> QED
      BY <1>1, <1>2, <2>1, <2>3, <3>1 DEF Talk, Asked, Sayable, Stages, RomStages
  <2>5. SyncOnce'
    <3>1. pc = "flasher" => down = <<>>
      BY <1>1 DEF Settled
    <3>2. pc = "flasher" => Len(down') <= 1 /\ AllIn(down', {"sync"})
      BY <2>1, <3>1, Alone
    <3>3. down'[Len(down')].cmd = "sync"
      BY <2>1, <2>3
    <3> QED
      BY <1>1, <1>2, <3>2, <3>3, NothingSaid DEF SyncOnce
  <2> QED
    BY <1>1, <1>2, <2>1, <2>4, <2>5
    DEF Talk, AnsweredLast, AcksTrue, RomSteps, OkMeansFlashed, StagedFirst, SpiStages, RomStages, Full
<1> QED
  BY <1>3, <1>4

\* The one answer there can be, and what it says of internal flash.
LEMMA RomAnswerKeeps ==
  ASSUME LinkTypeOK, Talk, RomAnswer
  PROVE  Talk'
<1>1. /\ stage \in RomStages /\ up # <<>> /\ up' = Tail(up) /\ UNCHANGED vars
      /\ Head(up).cmd = "rom" /\ (stage # "sync" => Head(up) = Rom(TRUE))
      /\ UNCHANGED <<img, viaSpi, known, upsets>>
  BY DEF RomAnswer, Rom
<1>2. UNCHANGED <<flash, slot, sb, pc, task>>
  BY <1>1 DEF vars
<1>3. up \in Seq(Answers) /\ down \in Seq(Requests) /\ off \in Nat /\ img \in Image /\ Size[img] \in 1 .. Block
  BY ContentFacts DEF LinkTypeOK, Offsets
<1>4. task # "cmdBackup"
  BY <1>1 DEF Talk, Asked, Stages, RomStages
<1>5. CASE stage = "go"
  <2>1. stage' = "idle" /\ res' = "ok" /\ down' = down
    BY <1>5 DEF RomAnswer
  <2>2. flash = Full(img)
    BY <1>5 DEF Talk, RomSteps
  <2>3. AllIn(down, {"go"})
    BY <1>5 DEF Talk, Asked, Sayable
  <2>4. Asked'
    BY <2>1, <2>3 DEF Asked, Sayable, AllIn, Stages, RomStages
  <2> QED
    BY <1>1, <1>2, <2>1, <2>2, <2>4
    DEF Talk, AnsweredLast, AcksTrue, SyncOnce, RomSteps, OkMeansFlashed, StagedFirst, SpiStages, RomStages, Full
<1>6. CASE stage # "go"
  <2>1. up' = <<>> /\ down = <<>> /\ pc = "flasher"
    <3>1. CASE stage = "sync"
      <4>1. Has(up, "rom")
        BY <1>1, <1>3, Taken
      <4>2. pc = "flasher" /\ down = <<>> /\ OnlyLast(up, "rom")
        BY <3>1, <4>1 DEF Talk, SyncOnce
      <4> QED
        BY <1>1, <1>3, <4>2, Taken
    <3>2. CASE stage \in {"erase", "write"}
      <4>1. pc = "flasher" /\ Len(down) + Len(up) <= 1
        BY <3>2 DEF Talk, RomSteps
      <4>2. Len(down) \in Nat /\ Len(up) \in Nat \ {0}
        BY <1>1, <1>3, EmptySeq
      <4>3. Len(down) = 0 /\ OnlyLast(up, "rom")
        BY <4>1, <4>2 DEF OnlyLast
      <4> QED
        BY <1>1, <1>3, <4>1, <4>3, Taken, EmptySeq
    <3> QED
      BY <1>1, <1>6, <3>1, <3>2 DEF RomStages
  <2>2. PICK s \in {"erase", "write", "go"}, p \in Nat : Ask(s, p) /\ res' = res
    BY <1>3, <1>6 DEF RomAnswer
  <2>3. s \in Stages \ {"idle", "backup"}
    BY DEF Stages, RomStages
  <2>4. /\ Asked' /\ stage' = s /\ off' = p /\ Len(down') = 1 /\ Head(down') = Request(s, img, p)
    BY <1>1, <1>2, <1>4, <2>1, <2>2, <2>3, AskedAlone
  <2>5. RomSteps'
    <3>1. Len(up') = 0
      BY <2>1
    <3>2. CASE stage = "sync"
      <4>1. stage' = "erase"
        BY <3>2 DEF RomAnswer, Ask
      <4> QED
        BY <1>2, <2>1, <2>4, <3>1, <4>1 DEF RomSteps
    <3>3. CASE stage = "erase"
      <4>1. stage' = "write" /\ off' = 0
        BY <3>3 DEF RomAnswer, Ask
      <4>2. Written(0)
        BY <1>1, <3>3 DEF Talk, RomSteps
      <4>3. Head(down').page = off' /\ Written(off)' /\ off' < Size[img']
        BY <1>1, <1>2, <1>3, <2>4, <4>1, <4>2 DEF Request, Written, Blank
      <4>4. pc' = "flasher" /\ Len(down') + Len(up') <= 1 /\ up' = <<>> /\ stage' = "write"
        BY <1>2, <2>1, <2>4, <3>1, <4>1
      <4> QED
        BY <4>3, <4>4 DEF RomSteps
    <3>4. CASE stage = "write"
      <4>1. Written(off + 1) /\ off < Size[img]
        BY <1>1, <3>4 DEF Talk, RomSteps
      <4>2. flash = [img |-> img, pages |-> off + 1]
        BY <1>3, <4>1 DEF Written
      <4>3. CASE stage' = "write"
        <5>1. off' = off + 1 /\ off + 1 < Size[img]
          BY <3>4, <4>3 DEF RomAnswer, Ask
        <5>2. Head(down').page = off' /\ Written(off)' /\ off' < Size[img']
          BY <1>1, <1>2, <1>3, <2>4, <4>2, <5>1 DEF Request, Written
        <5>3. pc' = "flasher" /\ Len(down') + Len(up') <= 1 /\ up' = <<>> /\ stage' = "write"
          BY <1>2, <2>1, <2>4, <3>1, <4>3
        <5> QED
          BY <5>2, <5>3 DEF RomSteps
      <4>4. CASE stage' = "go"
        <5>1. off + 1 = Size[img]
          BY <3>4, <4>4 DEF RomAnswer, Ask
        <5> QED
          BY <1>1, <1>2, <4>2, <4>4, <5>1 DEF RomSteps, Full
      <4> QED
        BY <3>4, <4>3, <4>4 DEF RomAnswer, Ask
    <3> QED
      BY <1>1, <1>6, <3>2, <3>3, <3>4 DEF RomStages
  <2> QED
    BY <1>1, <1>2, <2>4, <2>5
    DEF Talk, AnsweredLast, AcksTrue, SyncOnce, OkMeansFlashed, StagedFirst, SpiStages, RomStages, Full
<1> QED
  BY <1>5, <1>6

LEMMA RomFailsKeeps ==
  ASSUME LinkTypeOK', Talk, RomFails
  PROVE  Talk'
<1>1. CASE stage # "go"
  BY <1>1, OverTalk DEF RomFails, Finish
<1>2. CASE stage = "go"
  <2>1. stage' = "idle" /\ res' = "ok" /\ UNCHANGED <<down, img, viaSpi>> /\ UNCHANGED vars
    BY <1>2 DEF RomFails, Finish
  <2>2. flash = Full(img) /\ AllIn(down, {"go"}) /\ flash' = flash
    BY <1>2, <2>1 DEF Talk, RomSteps, Asked, Sayable, vars
  <2>3. Asked'
    BY <2>1, <2>2 DEF Asked, Sayable, AllIn, Stages, RomStages
  <2> QED
    BY <2>1, <2>2, <2>3
    DEF Talk, AnsweredLast, AcksTrue, SyncOnce, RomSteps, OkMeansFlashed, StagedFirst, SpiStages, RomStages, Full
<1> QED
  BY <1>1, <1>2

LEMMA StartKeeps ==
  ASSUME Talk, NEW i \in Image, Start(i)
  PROVE  Talk'
<1>1. /\ down = <<>> /\ task # "cmdBackup" /\ img' = i /\ up' = <<>> /\ ack' = NoAck /\ res' = "none"
      /\ UNCHANGED vars
  BY DEF Start
<1>2. task' = task
  BY <1>1 DEF vars
<1>3. PICK s \in {"backup", "enter"} :
        stage' = s /\ down' = Append(down, Request(s, i, 0)) /\ (s = "enter" => ~viaSpi')
  BY DEF Start
<1>4. down' = << Request(s, i, 0) >> /\ Request(s, i, 0).cmd = s /\ Request(s, i, 0).img = i
  BY <1>1, <1>3, Alone DEF Request
<1>5. AllIn(down', {s}) /\ OnlyLast(down', s) /\ \A j \in 1 .. Len(down') : down'[j].img = i
  BY <1>4, Alone
<1>6. Asked'
  BY <1>1, <1>2, <1>3, <1>5 DEF Asked, Sayable
<1>7. AnsweredLast' /\ AcksTrue'
  BY <1>1, <1>3, NothingSaid DEF AnsweredLast, AcksTrue, Says, NoAck, FlashAck
<1> QED
  BY <1>1, <1>3, <1>6, <1>7 DEF Talk, SyncOnce, RomSteps, OkMeansFlashed, StagedFirst, RomStages

LEMMA LearnKeeps ==
  ASSUME Talk, Learn
  PROVE  Talk'
<1>1. UNCHANGED <<stage, img, off, ack, viaSpi, res, down, up>> /\ UNCHANGED vars
  BY DEF Learn, link
<1>2. UNCHANGED <<flash, slot, sb, pc, task>>
  BY <1>1 DEF vars
<1>3. Asked' /\ AnsweredLast'
  BY <1>1, <1>2 DEF Talk, Asked, Sayable, AllIn, OnlyLast, Has, AnsweredLast
<1>4. AcksTrue' /\ SyncOnce' /\ RomSteps'
  BY <1>1, <1>2 DEF Talk, AllIn, OnlyLast, Has, AcksTrue, Says, SyncOnce, RomSteps, Written, Full
<1> QED
  BY <1>1, <1>2, <1>3, <1>4 DEF Talk, OkMeansFlashed, StagedFirst, Full

LEMMA EspKeepsTalk ==
  ASSUME LinkTypeOK, Talk, Esp \/ User \/ EspReset
  PROVE  Talk'
<1>1. LinkTypeOK'
  BY EspKeepsTypes
<1>2. CASE User
  BY <1>2, StartKeeps DEF User
<1>3. CASE EspReset
  BY <1>1, <1>3, OverTalk DEF EspReset
<1>4. CASE StagingFails
  BY <1>1, <1>4, OverTalk DEF StagingFails, Finish
<1> QED
  BY <1>1, <1>2, <1>3, <1>4, ReceiveKeeps, AfterBackupKeeps, AfterStagingKeeps, EnterDoneKeeps,
     SyncFailsKeeps, RomAnswerKeeps, RomFailsKeeps, LearnKeeps DEF Esp

-----------------------------------------------------------------------------
(* The GD32's steps *)

EspSame == UNCHANGED <<stage, img, off, ack, viaSpi, res>>

\* Of what was asked, the first has been taken or lost.
LEMMA FirstGone ==
  ASSUME LinkTypeOK, Asked, EspSame, down # <<>>, down' = Tail(down), task' = task \/ task' # "cmdBackup"
  PROVE  /\ Asked' /\ Msg.cmd \in Sayable
         /\ stage # "idle" => Msg.img = img
         /\ stage \in {"stageErase", "stageWrite", "stageVerify", "enter"} /\ Msg.cmd = stage => down' = <<>>
<1>1. down \in Seq(Requests)
  BY DEF LinkTypeOK
<1>2. /\ Head(down) = down[1] /\ 1 \in 1 .. Len(down)
      /\ \A i \in 1 .. Len(down') : i + 1 \in 1 .. Len(down) /\ down'[i] = down[i + 1]
      /\ AllIn(down, Sayable) => AllIn(down', Sayable) /\ Head(down).cmd \in Sayable
      /\ OnlyLast(down, stage) => OnlyLast(down', stage)
      /\ OnlyLast(down, stage) /\ Head(down).cmd = stage => down' = <<>>
  BY <1>1, Taken, Zenon
<1>3. Sayable' = Sayable
  BY DEF EspSame, Sayable
<1>4. AllIn(down', Sayable')
  BY <1>2, <1>3 DEF Asked
<1>5. stage # "idle" => \A i \in 1 .. Len(down') : down'[i].img = img
  BY <1>2 DEF Asked
<1>6. Asked'
  BY <1>2, <1>4, <1>5 DEF Asked, EspSame
<1> QED
  BY <1>2, <1>6 DEF Asked, Msg

\* What the flash controller reads next is something the ESP32 may have said.
LEMMA FirstSayable ==
  ASSUME LinkTypeOK, Asked, down # <<>>
  PROVE  Msg.cmd \in Sayable
<1>1. down \in Seq(Requests)
  BY DEF LinkTypeOK
<1>2. AllIn(down, Sayable) => Head(down).cmd \in Sayable
  BY <1>1, Taken, Zenon
<1> QED
  BY <1>2 DEF Asked, Msg

\* An acknowledgement follows the command it answers.
LEMMA AckFollows ==
  ASSUME LinkTypeOK, Talk, EspSame, down # <<>>, down' = Tail(down), task' = task, task # "cmdBackup",
         NEW a \in Answers, a.cmd = Msg.cmd, up' = Append(up, a), stage \in SpiStages,
         flash' = flash, slot'[S] = slot[S] \/ stage # "stageVerify", Says(a)'
  PROVE  AnsweredLast' /\ AcksTrue'
<1>1. /\ Msg.cmd \in Sayable
      /\ stage \in {"stageErase", "stageWrite", "stageVerify"} /\ Msg.cmd = stage => down' = <<>>
  BY FirstGone DEF Talk
<1>2. up \in Seq(Answers)
  BY DEF LinkTypeOK
<1>3. /\ \A c : ~Has(up, c) => OnlyLast(up', c)
      /\ \A c : Has(up', c) => Has(up, c) \/ a.cmd = c
      /\ Len(up') = Len(up) + 1 /\ up'[Len(up) + 1] = a /\ \A i \in 1 .. Len(up) : up'[i] = up[i]
  BY <1>2, Added
<1>4. AnsweredLast'
  <2>1. CASE stage = "backup"
    BY <1>1, <1>3, <2>1 DEF Talk, AnsweredLast, Sayable, EspSame
  <2>2. CASE stage # "backup"
    <3>1. ~Has(up, stage) /\ ack.cmd # stage
      BY <2>2 DEF Talk, AnsweredLast
    <3>2. OnlyLast(up', stage) /\ (Has(up', stage) => Msg.cmd = stage)
      BY <1>3, <3>1
    <3>3. stage \in {"stageErase", "stageWrite", "stageVerify"}
      BY <2>2 DEF SpiStages
    <3> QED
      BY <1>1, <2>2, <3>1, <3>2, <3>3 DEF AnsweredLast, EspSame
  <2> QED
    BY <2>1, <2>2
<1>5. AcksTrue'
  <2>1. Says(ack)' /\ \A i \in 1 .. Len(up) : Says(up[i])
    BY DEF Talk, AcksTrue, Says, EspSame, Full
  <2>2. \A i \in 1 .. Len(up') : i \in 1 .. Len(up) \/ up'[i] = a
    BY <1>2, <1>3
  <2>3. \A i \in 1 .. Len(up') : Says(up[i])' \/ up'[i] = a
    BY <2>1, <2>2 DEF Says, EspSame, Full
  <2> QED
    BY <1>2, <1>3, <2>1, <2>2, <2>3 DEF AcksTrue, Says, EspSame, Full
<1> QED
  BY <1>4, <1>5

LEMMA FirmwareLasting ==
  ASSUME TypeOK, NoTrial, Firmware
  PROVE  /\ flash' = flash /\ slot'[S] = slot[S] /\ pc # "flasher" /\ pc' # "flasher"
         /\ task' = task \/ task' # "cmdBackup"
<1>1. flash' = flash /\ pc # "flasher"
  BY GuardAtRest DEF Firmware, BkErase, BkEraseFails, BkProgram, BkProgramFails, BkVerify,
     BkVerifyFails, SbErase, SbEraseFails, SbProgram, SbProgramFails, GuardNoFlash, GuardFirstBoot,
     GuardConfirmed, AtGuard
<1>2. slot' = slot \/ (pc \in BackupPcs /\ \E c : slot' = [slot EXCEPT ![at] = c])
  BY GuardAtRest DEF Firmware, BkErase, BkEraseFails, BkProgram, BkProgramFails, BkVerify,
     BkVerifyFails, SbErase, SbEraseFails, SbProgram, SbProgramFails, GuardNoFlash, GuardFirstBoot,
     GuardConfirmed, BackupPcs
<1>3. pc \in BackupPcs => at # S
  BY DEF NoTrial, A, B, S
<1>4. slot \in [Slot -> Content] /\ S \in Slot
  BY DEF TypeOK, Slot, A, B, S
<1>5. slot'[S] = slot[S]
  BY <1>2, <1>3, <1>4
<1>6. pc' # "flasher" /\ (task' = task \/ task' # "cmdBackup")
  BY GuardAtRest DEF Firmware, BkErase, BkEraseFails, BkProgram, BkProgramFails, BkVerify,
     BkVerifyFails, SbErase, SbEraseFails, SbProgram, SbProgramFails, GuardNoFlash, GuardFirstBoot,
     GuardConfirmed, AtGuard, Return, StartBackup, StartSbWrite, EndTask
<1> QED
  BY <1>1, <1>5, <1>6

\* The application answers a command for its chip at once.
LEMMA AppAnswers ==
  ASSUME TypeOK, LinkTypeOK, NoTrial, Talk, EspSame, pc = "app", pc' = pc, task' = task, flash' = flash,
         down # <<>>, Msg.cmd \in SpiStages, down' = Tail(down),
         NEW a \in Answers, a.cmd = Msg.cmd, up' = Append(up, a),
         slot'[S] = slot[S] \/ Msg.cmd # "stageVerify",
         a.good => /\ a.cmd # "backup"
                   /\ a.cmd = "stageVerify" => slot'[S] = Full(Msg.img)
  PROVE  Talk'
<1>1. task # "cmdBackup"
  BY DEF NoTrial, BackupPcs, SbPcs
<1>2. Asked' /\ Msg.cmd \in Sayable /\ (stage # "idle" => Msg.img = img)
  BY <1>1, FirstGone DEF Talk
<1>3. stage \in SpiStages \cup {"idle"}
  BY <1>2 DEF Sayable, SpiStages, LinkTypeOK, Stages
<1>4. CASE stage = "idle"
  BY <1>2, <1>4
  DEF Talk, AnsweredLast, AcksTrue, SyncOnce, RomSteps, OkMeansFlashed, StagedFirst, EspSame,
      SpiStages, RomStages, Full
<1>5. CASE stage \in SpiStages
  <2>1. stage = "stageVerify" => Msg.cmd = "stageVerify"
    BY <1>2 DEF Sayable
  <2>2. Says(a)'
    BY <1>2, <1>5 DEF Says, EspSame, Full, SpiStages
  <2>3. AnsweredLast' /\ AcksTrue'
    <3>1. slot'[S] = slot[S] \/ stage # "stageVerify"
      BY <2>1
    <3> QED
      BY <1>1, <1>5, <2>2, <3>1, AckFollows
  <2> QED
    BY <1>2, <1>5, <2>3
    DEF Talk, SyncOnce, RomSteps, OkMeansFlashed, StagedFirst, EspSame, SpiStages, RomStages, Full
<1> QED
  BY <1>3, <1>4, <1>5

LEMMA ChipCommandKeeps ==
  ASSUME TypeOK, LinkTypeOK, NoTrial, Talk, EspSame,
         GdNoFlash \/ GdEraseStaging \/ GdWriteStaging \/ GdVerify
  PROVE  Talk'
<1>1. /\ \A m \in SpiStages, g \in BOOLEAN : FlashAck(m, g, NoImage) \in Answers
      /\ \A m, g, i : FlashAck(m, g, i).cmd = m /\ FlashAck(m, g, i).good = g
  BY DEF FlashAck, Answers
<1>2. Worked \in BOOLEAN /\ SpiStages = {"backup", "stageErase", "stageWrite", "stageVerify"}
  BY DEF Worked, SpiStages
<1>3. CASE GdNoFlash
  <2>1. PICK m \in SpiStages : Takes(m) /\ Reply(FlashAck(m, FALSE, NoImage))
    BY <1>3 DEF GdNoFlash
  <2>2. pc = "app" /\ UNCHANGED <<pc, task, flash, slot>>
    BY <1>3 DEF GdNoFlash, vars
  <2> DEFINE a == FlashAck(m, FALSE, NoImage)
  <2>3. a \in Answers /\ a.cmd = m /\ ~a.good
    BY <1>1
  <2>4. down # <<>> /\ Msg.cmd = m /\ down' = Tail(down) /\ up' = Append(up, a)
    BY <2>1 DEF Takes, Reply
  <2> HIDE DEF a
  <2> QED
    BY <2>2, <2>3, <2>4, AppAnswers
<1>4. CASE GdEraseStaging
  <2> DEFINE a == FlashAck("stageErase", Worked, NoImage)
  <2>1. a \in Answers /\ a.cmd = "stageErase"
    BY <1>1, <1>2
  <2>2. /\ down # <<>> /\ Msg.cmd = "stageErase" /\ down' = Tail(down) /\ up' = Append(up, a)
        /\ pc = "app" /\ UNCHANGED <<pc, task, flash>>
    BY <1>4 DEF GdEraseStaging, Takes, Reply, CmdEraseStaging, Accepts
  <2> HIDE DEF a
  <2> QED
    BY <1>2, <2>1, <2>2, AppAnswers
<1>5. CASE GdWriteStaging
  <2>1. PICK g \in {TRUE, Worked} : Reply(FlashAck("stageWrite", g, NoImage))
    BY <1>5 DEF GdWriteStaging
  <2> DEFINE a == FlashAck("stageWrite", g, NoImage)
  <2>2. a \in Answers /\ a.cmd = "stageWrite"
    BY <1>1, <1>2
  <2>3. /\ down # <<>> /\ Msg.cmd = "stageWrite" /\ down' = Tail(down) /\ up' = Append(up, a)
        /\ pc = "app" /\ UNCHANGED <<pc, task, flash>>
    BY <1>5, <2>1 DEF GdWriteStaging, Takes, Reply, CmdWriteStaging, Accepts
  <2> HIDE DEF a
  <2> QED
    BY <1>2, <2>2, <2>3, AppAnswers
<1>6. CASE GdVerify
  <2> DEFINE g == slot[S] = Full(Msg.img)
             a == FlashAck("stageVerify", g, NoImage)
  <2>1. a \in Answers /\ a.cmd = "stageVerify" /\ (a.good => slot[S] = Full(Msg.img))
    <3>1. g \in BOOLEAN /\ "stageVerify" \in SpiStages
      BY <1>2
    <3> HIDE DEF g
    <3>2. a \in Answers /\ a.cmd = "stageVerify" /\ a.good = g
      BY <1>1, <3>1
    <3> QED
      BY <3>2 DEF g
  <2>2. /\ down # <<>> /\ Msg.cmd = "stageVerify" /\ down' = Tail(down) /\ up' = Append(up, a)
        /\ pc = "app" /\ UNCHANGED <<pc, task, flash, slot>>
    BY <1>6 DEF GdVerify, Takes, Reply, vars
  <2> HIDE DEF a
  <2> QED
    BY <1>2, <2>1, <2>2, AppAnswers
<1> QED
  BY <1>3, <1>4, <1>5, <1>6

\* A backup that the ESP32 has given up may start before the erase.
LEMMA GdBackupKeeps ==
  ASSUME LinkTypeOK, Talk, EspSame, GdBackup
  PROVE  Talk'
<1>1. /\ down # <<>> /\ Msg.cmd = "backup" /\ down' = Tail(down) /\ up' = up /\ task' = "cmdBackup"
      /\ pc = "app" /\ UNCHANGED <<flash, slot>>
  BY DEF GdBackup, Takes, CmdBackup, StartBackup, Accepts
<1>2. "backup" \in Sayable
  BY <1>1, FirstSayable DEF Talk
<1>3. stage \in {"backup", "stageErase", "idle"}
  BY <1>2 DEF Sayable, LinkTypeOK, Stages, SpiStages, RomStages
<1>4. Asked'
  <2>1. down \in Seq(Requests)
    BY DEF LinkTypeOK
  <2>2. /\ AllIn(down, Sayable) => AllIn(down', Sayable)
        /\ OnlyLast(down, stage) => OnlyLast(down', stage)
        /\ \A i \in 1 .. Len(down') : i + 1 \in 1 .. Len(down) /\ down'[i] = down[i + 1]
    BY <1>1, <2>1, Taken, Zenon
  <2>3. Sayable' = Sayable
    BY DEF EspSame, Sayable
  <2>4. AllIn(down', Sayable') /\ (stage # "idle" => \A i \in 1 .. Len(down') : down'[i].img = img)
    BY <2>2, <2>3 DEF Talk, Asked
  <2> QED
    BY <1>3, <2>2, <2>4 DEF Talk, Asked, EspSame
<1>5. AnsweredLast'
  BY <1>1, <1>3 DEF Talk, AnsweredLast, EspSame
<1>6. AcksTrue'
  BY <1>1 DEF Talk, AcksTrue, Says, EspSame, Full
<1> QED
  BY <1>1, <1>3, <1>4, <1>5, <1>6
  DEF Talk, SyncOnce, RomSteps, OkMeansFlashed, StagedFirst, EspSame, RomStages, Full

\* The flasher starts with an empty ring, but for what was still on the wire.
LEMMA GdEnterKeeps ==
  ASSUME TypeOK, LinkTypeOK, NoTrial, Talk, EspSame, GdEnter
  PROVE  Talk'
<1>1. /\ down # <<>> /\ Msg.cmd = "enter" /\ pc = "app" /\ pc' = "flasher" /\ up' = Append(up, EnterAck)
      /\ UNCHANGED <<flash, slot, task>> /\ (down' = <<>> \/ down' = <<down[Len(down)]>>)
  BY DEF GdEnter, CmdEnterBootloader, Reply
<1>2. down \in Seq(Requests) /\ up \in Seq(Answers) /\ EnterAck \in Answers
  BY DEF LinkTypeOK, EnterAck, Answers
<1>3. "enter" \in Sayable
  BY <1>1, FirstSayable DEF Talk
<1>4. stage \in {"enter", "sync", "idle"}
  BY <1>3 DEF Sayable, LinkTypeOK, Stages, SpiStages, RomStages
<1>5. Len(down) \in 1 .. Len(down)
  BY <1>1, <1>2, EmptySeq
<1>6. \A i \in 1 .. Len(down') : down'[i] = down[Len(down)]
  BY <1>1, Alone, NothingSaid
<1>7. Asked'
  <2>1. Sayable' = Sayable
    BY DEF EspSame, Sayable
  <2>2. AllIn(down', Sayable') /\ (stage # "idle" => \A i \in 1 .. Len(down') : down'[i].img = img)
    BY <1>5, <1>6, <2>1 DEF Talk, Asked, AllIn
  <2>3. OnlyLast(down', stage)
    BY <1>1, Alone, NothingSaid
  <2>4. task' # "cmdBackup"
    BY <1>1 DEF NoTrial, BackupPcs, SbPcs
  <2> QED
    BY <2>2, <2>3, <2>4 DEF Asked, EspSame
<1>8. SyncOnce'
  <2> SUFFICES ASSUME stage = "sync"
               PROVE  /\ down' # <<>> => down'[Len(down')].cmd = "sync"
                      /\ Len(down') <= 1 /\ AllIn(down', {"sync"}) /\ ~Has(up', "rom")
    BY DEF SyncOnce, EspSame
  <2>1. down[Len(down)].cmd = "sync" /\ ~Has(up, "rom")
    BY <1>1 DEF Talk, SyncOnce
  <2>2. ~Has(up', "rom")
    BY <1>1, <1>2, <2>1, Added DEF EnterAck
  <2>3. CASE down' = <<>>
    BY <2>2, <2>3, NothingSaid
  <2>4. CASE down' = <<down[Len(down)]>>
    BY <2>1, <2>2, <2>4, Alone
  <2> QED
    BY <1>1, <2>3, <2>4
<1> QED
  BY <1>1, <1>4, <1>7, <1>8
  DEF Talk, AnsweredLast, AcksTrue, RomSteps, OkMeansFlashed, StagedFirst, EspSame, SpiStages, RomStages, Full

\* After an attempt that is over the rest of its messages is worked off.
LEMMA IdleTakes ==
  ASSUME LinkTypeOK, Talk, EspSame, stage = "idle", down # <<>>, down' = Tail(down),
         task' = task \/ task' # "cmdBackup", flash' = flash \/ Msg.cmd \in {"erase", "write"}
  PROVE  Talk'
<1>1. Asked' /\ Msg.cmd \in Sayable
  BY FirstGone DEF Talk
<1>2. res \in {"ok", "upToDate"} => flash' = flash
  BY <1>1 DEF Sayable
<1> QED
  BY <1>1, <1>2
  DEF Talk, AnsweredLast, AcksTrue, SyncOnce, RomSteps, OkMeansFlashed, StagedFirst, EspSame,
      SpiStages, RomStages, Full

\* A stage that waits for the flasher waits for one answer to one command.
LEMMA OneAsked ==
  ASSUME LinkTypeOK, down # <<>>, Len(down) + Len(up) <= 1
  PROVE  up = <<>> /\ Tail(down) = <<>>
<1>1. /\ down \in Seq(Requests) /\ up \in Seq(Answers) /\ Len(down) \in Nat \ {0} /\ Len(up) \in Nat
      /\ Len(Tail(down)) = Len(down) - 1 /\ Tail(down) \in Seq(Requests)
  <2>1. down \in Seq(Requests) /\ up \in Seq(Answers)
    BY DEF LinkTypeOK
  <2>2. Len(down) \in Nat \ {0} /\ Tail(down) \in Seq(Requests)
    BY <2>1, EmptySeq, MsgType
  <2> QED
    BY <2>1, <2>2, Taken
<1> DEFINE t == Tail(down)
<1> HIDE DEF t
<1>2. Len(down) = 1 /\ Len(up) = 0
  BY <1>1
<1>3. Len(t) = 0 /\ t \in Seq(Requests)
  BY <1>1, <1>2 DEF t
<1> QED
  BY <1>1, <1>2, <1>3, EmptySeq DEF t

\* An attempt to synchronise that reaches the flasher is the only one.
LEMMA GdSyncKeeps ==
  ASSUME LinkTypeOK, Talk, EspSame, GdSync
  PROVE  Talk'
<1>1. /\ pc = "flasher" /\ down # <<>> /\ Msg.cmd = "sync" /\ down' = Tail(down)
      /\ up' = Append(up, Rom(TRUE)) /\ UNCHANGED <<flash, slot, pc, task>>
  BY DEF GdSync, Takes, Reply, vars
<1>2. Asked' /\ "sync" \in Sayable
  BY <1>1, FirstGone DEF Talk
<1>3. stage \in {"sync", "idle"}
  BY <1>2 DEF Sayable, LinkTypeOK, Stages, SpiStages, RomStages
<1>4. CASE stage = "idle"
  BY <1>1, <1>4, IdleTakes
<1>5. CASE stage = "sync"
  <2>1. /\ Len(down) <= 1 /\ ~Has(up, "rom") /\ up \in Seq(Answers) /\ Rom(TRUE) \in Answers
        /\ down \in Seq(Requests)
    BY <1>1, <1>5 DEF Talk, SyncOnce, Rom, Answers, LinkTypeOK
  <2>2. OnlyLast(up', "rom")
    BY <1>1, <2>1, Added
  <2>3. down' = <<>>
    <3> DEFINE n == Len(down)
    <3>1. n \in Nat \ {0} /\ n <= 1
      BY <1>1, <2>1, EmptySeq
    <3> HIDE DEF n
    <3>2. n = 1
      BY <3>1
    <3>3. OnlyLast(down, "sync") /\ Head(down).cmd = "sync"
      BY <1>1, <3>2 DEF OnlyLast, Msg, n
    <3> QED
      BY <1>1, <2>1, <3>3, Taken
  <2>4. SyncOnce'
    <3>1. Len(down') <= 1 /\ AllIn(down', {"sync"})
      BY <2>3, NothingSaid
    <3> QED
      BY <1>1, <2>2, <2>3, <3>1 DEF SyncOnce
  <2> QED
    BY <1>1, <1>2, <1>5, <2>4
    DEF Talk, AnsweredLast, AcksTrue, RomSteps, OkMeansFlashed, StagedFirst, EspSame, SpiStages, RomStages, Full
<1> QED
  BY <1>3, <1>4, <1>5

\* The flasher's answer to an erase or a write is the last thing said of it.
LEMMA FlasherAnswers ==
  ASSUME LinkTypeOK, Talk, EspSame, pc = "flasher", pc' = pc, task' = task, slot' = slot,
         down # <<>>, down' = Tail(down), Msg.cmd \in {"erase", "write"}, NEW g \in BOOLEAN,
         up' = Append(up, Rom(g)),
         g /\ stage = "erase" => flash' = Blank,
         g /\ stage = "write" => flash' = [img |-> img, pages |-> off + 1]
  PROVE  Talk'
<1>1. Asked' /\ Msg.cmd \in Sayable
  BY FirstGone DEF Talk
<1>2. stage \in {"erase", "write", "idle"}
  BY <1>1 DEF Sayable, LinkTypeOK, Stages, SpiStages, RomStages
<1>3. CASE stage = "idle"
  BY <1>3, IdleTakes
<1>4. CASE stage \in {"erase", "write"}
  <2>1. Len(down) + Len(up) <= 1
    BY <1>4 DEF Talk, RomSteps
  <2>2. up = <<>> /\ down' = <<>>
    BY <2>1, OneAsked
  <2>3. up' = <<Rom(g)>> /\ Len(up') = 1 /\ Head(up') = Rom(g) /\ Len(down') = 0
    BY <2>2, Alone
  <2>4. Rom(g) = Rom(TRUE) => g
    BY DEF Rom
  <2>5. off \in Nat /\ (stage = "write" => off < Size[img])
    BY DEF LinkTypeOK, Offsets, Talk, RomSteps
  <2>6. Head(up') = Rom(TRUE) => (stage = "erase" => Written(0)') /\ (stage = "write" => Written(off + 1)')
    BY <2>3, <2>4, <2>5 DEF Written, EspSame
  <2>7. RomSteps'
    <3>0. Len(down') + Len(up') <= 1
      BY <2>3
    <3>1. /\ pc' = "flasher" /\ Len(down') + Len(up') <= 1 /\ down' = <<>>
          /\ stage' = stage /\ off' = off /\ img' = img
      BY <2>2, <3>0 DEF EspSame
    <3>2. CASE stage = "erase"
      <4>1. Head(up') = Rom(TRUE) => Written(IF stage = "erase" THEN 0 ELSE off + 1)'
        BY <2>6, <3>1, <3>2 DEF Written
      <4> QED
        BY <3>1, <3>2, <4>1 DEF RomSteps
    <3>3. CASE stage = "write"
      <4>1. Head(up') = Rom(TRUE) => Written(IF stage = "erase" THEN 0 ELSE off + 1)'
        BY <2>6, <3>1, <3>3 DEF Written
      <4>2. off' < Size[img']
        BY <2>5, <3>1, <3>3
      <4> QED
        BY <3>1, <3>3, <4>1, <4>2 DEF RomSteps
    <3> QED
      BY <1>4, <3>2, <3>3
  <2> QED
    BY <1>1, <1>4, <2>7
    DEF Talk, AnsweredLast, AcksTrue, SyncOnce, OkMeansFlashed, StagedFirst, EspSame, SpiStages, RomStages, Full
<1> QED
  BY <1>2, <1>3, <1>4

LEMMA FlasherCommandKeeps ==
  ASSUME TypeOK, LinkTypeOK, Talk, EspSame, GdErase \/ GdWrite \/ GdGo
  PROVE  Talk'
<1>1. Worked \in BOOLEAN /\ (Fault => ~Worked)
  BY DEF Worked, Fault, TypeOK
<1>2. CASE GdErase
  <2>1. /\ pc = "flasher" /\ UNCHANGED <<pc, task, slot>> /\ down # <<>> /\ down' = Tail(down)
        /\ Msg.cmd = "erase" /\ up' = Append(up, Rom(Worked)) /\ (Worked => flash' = Blank)
    BY <1>1, <1>2 DEF GdErase, Takes, Reply, FlErase
  <2>2. stage # "write"
    <3>1. Msg.cmd \in Sayable
      BY <2>1, FirstGone DEF Talk
    <3> QED
      BY <2>1, <3>1 DEF Sayable
  <2> DEFINE g == Worked
  <2>3. g \in BOOLEAN /\ up' = Append(up, Rom(g)) /\ (g => flash' = Blank)
    BY <1>1, <2>1
  <2> HIDE DEF g
  <2> QED
    BY <2>1, <2>2, <2>3, FlasherAnswers
<1>3. CASE GdWrite
  <2>1. /\ pc = "flasher" /\ UNCHANGED <<pc, task, slot>> /\ down # <<>> /\ down' = Tail(down)
        /\ Msg.cmd = "write" /\ up' = Append(up, Rom(Worked))
        /\ (Worked => flash' = ProgramOver(flash, Msg.img, Msg.page))
    BY <1>1, <1>3 DEF GdWrite, Takes, Reply, FlWrite
  <2>2. stage # "erase" /\ (stage # "idle" => Msg.img = img)
    <3>1. Msg.cmd \in Sayable /\ (stage # "idle" => Msg.img = img)
      BY <2>1, FirstGone DEF Talk
    <3> QED
      BY <2>1, <3>1 DEF Sayable
  <2>3. ASSUME stage = "write", Worked
        PROVE  flash' = [img |-> img, pages |-> off + 1]
    <3>1. Msg.page = off /\ Written(off) /\ off \in Nat
      BY <2>1, <2>3 DEF Talk, RomSteps, Msg, LinkTypeOK, Offsets
    <3>2. flash.pages = off /\ (off = 0 \/ flash.img = img)
      BY <3>1 DEF Written, Blank
    <3> QED
      BY <2>1, <2>2, <2>3, <3>1, <3>2 DEF ProgramOver
  <2> DEFINE g == Worked
  <2>4. /\ g \in BOOLEAN /\ up' = Append(up, Rom(g))
        /\ (g /\ stage = "write" => flash' = [img |-> img, pages |-> off + 1])
    BY <1>1, <2>1, <2>3
  <2> HIDE DEF g
  <2> QED
    BY <2>1, <2>2, <2>4, FlasherAnswers
<1>4. CASE GdGo
  <2>1. /\ down # <<>> /\ down' = Tail(down) /\ Msg.cmd = "go" /\ UNCHANGED <<task, slot, flash>>
    BY <1>4 DEF GdGo, Takes, FlGo
  <2>2. Asked' /\ Msg.cmd \in Sayable
    BY <2>1, FirstGone DEF Talk
  <2>3. stage \in {"go", "idle"}
    BY <2>1, <2>2 DEF Sayable, LinkTypeOK, Stages, SpiStages, RomStages
  <2> QED
    BY <2>1, <2>2, <2>3
    DEF Talk, AnsweredLast, AcksTrue, SyncOnce, RomSteps, OkMeansFlashed, StagedFirst, EspSame,
        SpiStages, RomStages, Full
<1> QED
  BY <1>2, <1>3, <1>4

\* The last message stays the last.
LEMMA LastStays ==
  ASSUME NEW T, NEW q \in Seq(T), q # <<>>, Tail(q) # <<>>
  PROVE  Tail(q)[Len(Tail(q))] = q[Len(q)] /\ Len(Tail(q)) = Len(q) - 1
<1> DEFINE t == Tail(q)
<1>1. t \in Seq(T) /\ Len(t) = Len(q) - 1 /\ Len(q) \in Nat /\ \A i \in 1 .. Len(t) : t[i] = q[i + 1]
  <2>1. t \in Seq(T)
    BY HeadTailProperties, Zenon
  <2>2. Len(t) = Len(q) - 1 /\ \A i \in 1 .. Len(t) : t[i] = q[i + 1]
    BY Taken, Zenon
  <2> QED
    BY <2>1, <2>2
<1>2. t # <<>>
  OBVIOUS
<1> HIDE DEF t
<1>3. Len(t) \in Nat \ {0}
  BY <1>1, <1>2, EmptySeq, Zenon
<1>4. t[Len(t)] = q[Len(q)]
  BY <1>1, <1>3
<1> QED
  BY <1>1, <1>4 DEF t

\* A message is gone without an effect: skipped, or lost.
LEMMA NothingDone ==
  ASSUME LinkTypeOK, Talk, EspSame, UNCHANGED <<flash, slot, pc, task>>, down # <<>>, down' = Tail(down),
         up' = up \/ (up' = Append(up, Rom(FALSE)) /\ Msg.cmd \in RomStages \ {"sync"}),
         up' = up => pc = "flasher" \/ stage \notin {"erase", "write"}
  PROVE  Talk'
<1>1. Asked' /\ Msg.cmd \in Sayable /\ down \in Seq(Requests) /\ up \in Seq(Answers)
  BY FirstGone DEF Talk, LinkTypeOK
<1>2. CASE stage \in SpiStages
  <2>1. up' = up
    BY <1>1, <1>2 DEF Sayable, SpiStages, RomStages
  <2>2. AnsweredLast'
    BY <1>2, <2>1 DEF Talk, AnsweredLast, EspSame
  <2>3. AcksTrue'
    BY <2>1 DEF Talk, AcksTrue, Says, EspSame, Full
  <2> QED
    BY <1>1, <1>2, <2>2, <2>3
    DEF Talk, SyncOnce, RomSteps, OkMeansFlashed, StagedFirst, EspSame, SpiStages, RomStages, Full
<1>3. CASE stage = "sync"
  <2>1. up' = up
    BY <1>1, <1>3 DEF Sayable, RomStages
  <2>2. ~Has(up, "rom") /\ down[Len(down)].cmd = "sync"
    BY <1>3 DEF Talk, SyncOnce
  <2>3. down' # <<>> => down'[Len(down')].cmd = "sync"
    BY <1>1, <2>2, LastStays
  <2>4. pc = "flasher" => Len(down') <= 1 /\ AllIn(down', {"sync"})
    <3> DEFINE t == Tail(down)
    <3>1. AllIn(down, {"sync"}) => AllIn(t, {"sync"})
      BY <1>1, Taken
    <3>2. Len(t) = Len(down) - 1 /\ Len(down) \in Nat
      BY <1>1, Taken
    <3>3. pc = "flasher" => Len(down) <= 1 /\ AllIn(down, {"sync"})
      BY <1>3 DEF Talk, SyncOnce
    <3>4. down' = t
      OBVIOUS
    <3> HIDE DEF t
    <3>5. pc = "flasher" => Len(t) <= 1
      BY <3>2, <3>3
    <3> QED
      BY <3>1, <3>3, <3>4, <3>5
  <2>5. SyncOnce'
    BY <2>1, <2>2, <2>3, <2>4 DEF SyncOnce
  <2> QED
    BY <1>1, <1>3, <2>5
    DEF Talk, AnsweredLast, AcksTrue, RomSteps, OkMeansFlashed, StagedFirst, EspSame, SpiStages, RomStages, Full
<1>4. CASE stage \in {"erase", "write"}
  <2>1. up = <<>> /\ down' = <<>> /\ pc = "flasher"
    BY <1>4, OneAsked DEF Talk, RomSteps
  <2>2. up' = <<>> \/ (Len(up') = 1 /\ Head(up') = Rom(FALSE))
    <3> DEFINE x == Rom(FALSE)
    <3>1. up' = <<>> \/ up' = Append(<<>>, x)
      BY <2>1
    <3> HIDE DEF x
    <3>2. Len(Append(<<>>, x)) = 1 /\ Head(Append(<<>>, x)) = x
      BY Alone, Zenon
    <3>3. up' = <<>> \/ (Len(up') = 1 /\ Head(up') = x)
      BY <3>1, <3>2, Zenon
    <3> QED
      BY <3>3 DEF x
  <2>3. Rom(FALSE) # Rom(TRUE)
    BY DEF Rom
  <2>4. Len(down') + Len(up') <= 1
    <3> DEFINE m == Len(down')
               n == Len(up')
    <3>1. Len(<<>>) = 0
      OBVIOUS
    <3>2. m = 0 /\ n \in {0, 1}
      BY <2>1, <2>2, <3>1, Zenon
    <3> HIDE DEF m, n
    <3>3. m + n <= 1
      BY <3>2
    <3> QED
      BY <3>3 DEF m, n
  <2>5. stage = "write" => off < Size[img]
    BY DEF Talk, RomSteps
  <2>6. RomSteps'
    BY <1>4, <2>1, <2>2, <2>3, <2>4, <2>5 DEF RomSteps, EspSame
  <2> QED
    BY <1>1, <1>4, <2>6
    DEF Talk, AnsweredLast, AcksTrue, SyncOnce, OkMeansFlashed, StagedFirst, EspSame, SpiStages, RomStages, Full
<1>5. CASE stage \notin SpiStages \cup {"sync", "erase", "write"}
  BY <1>1, <1>5
  DEF Talk, AnsweredLast, AcksTrue, SyncOnce, RomSteps, OkMeansFlashed, StagedFirst, EspSame,
      SpiStages, RomStages, Full
<1> QED
  BY <1>2, <1>3, <1>4, <1>5

LEMMA GdIgnoresKeeps ==
  ASSUME LinkTypeOK, Talk, EspSame, GdIgnores
  PROVE  Talk'
<1>1. down # <<>> /\ down' = Tail(down) /\ up' = up /\ UNCHANGED <<flash, slot, pc, task>>
  BY DEF GdIgnores, Takes, vars
<1>2. stage \in {"erase", "write"} => pc = "flasher"
  BY DEF Talk, RomSteps
<1> QED
  BY <1>1, <1>2, NothingDone

LEMMA LoseRequestKeeps ==
  ASSUME LinkTypeOK, Talk, LoseRequest
  PROVE  Talk'
<1>1. /\ down # <<>> /\ down' = Tail(down) /\ EspSame /\ UNCHANGED vars
      /\ up' = up \/ (up' = Append(up, Rom(FALSE)) /\ Msg.cmd \in RomStages \ {"sync"})
  BY DEF LoseRequest, Reply, esp, EspSame
<1>2. UNCHANGED <<flash, slot, pc, task>>
  BY <1>1 DEF vars
<1>3. stage \in {"erase", "write"} => pc = "flasher"
  BY DEF Talk, RomSteps
<1> QED
  BY <1>1, <1>2, <1>3, NothingDone

LEMMA LoseAnswerKeeps ==
  ASSUME LinkTypeOK, Talk, LoseAnswer
  PROVE  Talk'
<1>1. /\ up # <<>> /\ up' = Tail(up) /\ EspSame /\ down' = down /\ UNCHANGED vars /\ up \in Seq(Answers)
  BY DEF LoseAnswer, esp, EspSame, LinkTypeOK
<1>2. UNCHANGED <<flash, slot, pc, task>>
  BY <1>1 DEF vars
<1>3. /\ \A i \in 1 .. Len(up') : i + 1 \in 1 .. Len(up) /\ up'[i] = up[i + 1]
      /\ \A c : OnlyLast(up, c) => OnlyLast(up', c)
      /\ \A c : Has(up', c) => Has(up, c)
  BY <1>1, Taken
<1>4. Asked'
  BY <1>1, <1>2 DEF Talk, Asked, Sayable, AllIn, OnlyLast, EspSame
<1>5. AnsweredLast'
  BY <1>1, <1>2, <1>3 DEF Talk, AnsweredLast, EspSame
<1>6. AcksTrue'
  BY <1>1, <1>2, <1>3 DEF Talk, AcksTrue, Says, EspSame, Full
<1>7. SyncOnce'
  <2> SUFFICES ASSUME stage = "sync" PROVE SyncOnce'
    BY <1>1 DEF SyncOnce, EspSame
  <2>1. /\ down # <<>> => down[Len(down)].cmd = "sync"
        /\ pc = "flasher" => Len(down) <= 1 /\ AllIn(down, {"sync"})
        /\ Has(up', "rom") => pc = "flasher" /\ down = <<>> /\ OnlyLast(up', "rom")
    BY <1>3 DEF Talk, SyncOnce
  <2>2. AllIn(down, {"sync"})' <=> AllIn(down, {"sync"})
    BY <1>1 DEF AllIn
  <2> QED
    BY <1>1, <1>2, <2>1, <2>2 DEF SyncOnce
<1>8. RomSteps'
  <2>1. CASE stage \in {"erase", "write"}
    <3>1. /\ pc = "flasher" /\ Len(down) + Len(up) <= 1 /\ Len(down) \in Nat /\ Len(up) \in Nat \ {0}
          /\ Len(up') = Len(up) - 1
      <4>1. pc = "flasher" /\ Len(down) + Len(up) <= 1
        BY <2>1 DEF Talk, RomSteps
      <4>2. Len(down) \in Nat /\ Len(up) \in Nat \ {0}
        BY <1>1, EmptySeq DEF LinkTypeOK
      <4> QED
        BY <1>1, <4>1, <4>2, Taken
    <3>2. Len(up') = 0 /\ up' \in Seq(Answers)
      <4>1. Len(up') = 0
        BY <3>1
      <4> QED
        BY <1>1, <4>1, HeadTailProperties
    <3>3. up' = <<>> /\ Len(down') + Len(up') <= 1
      BY <1>1, <3>1, <3>2, EmptySeq
    <3>4. stage = "write" => off < Size[img] /\ (down # <<>> => Head(down).page = off /\ Written(off))
      BY DEF Talk, RomSteps
    <3>5. Written(off)' <=> Written(off)
      BY <1>1, <1>2 DEF EspSame, Written
    <3> QED
      BY <1>1, <1>2, <2>1, <3>1, <3>3, <3>4, <3>5 DEF RomSteps, EspSame
  <2>2. CASE stage \notin {"erase", "write"}
    BY <1>1, <1>2, <2>2 DEF Talk, RomSteps, EspSame, Full
  <2> QED
    BY <2>1, <2>2
<1> QED
  BY <1>1, <1>2, <1>4, <1>5, <1>6, <1>7, <1>8 DEF Talk, OkMeansFlashed, StagedFirst, EspSame, Full

LEMMA SupplyKeeps ==
  ASSUME LinkTypeOK', Talk, SupplyFails \/ SupplyBack
  PROVE  Talk'
<1>1. CASE SupplyFails
  BY <1>1, OverTalk DEF SupplyFails
<1>2. CASE SupplyBack
  <2>1. /\ EspSame /\ UNCHANGED <<down, up, flash, slot, task>> /\ pc # "flasher" /\ pc' # "flasher"
    BY <1>2 DEF SupplyBack, PowerOn, ResetInto, esp, link, EspSame
  <2>2. Asked' /\ AnsweredLast' /\ AcksTrue'
    BY <2>1 DEF Talk, Asked, Sayable, AllIn, OnlyLast, Has, AnsweredLast, AcksTrue, Says, EspSame, Full
  <2>3. SyncOnce'
    BY <2>1 DEF Talk, SyncOnce, Has, EspSame
  <2> QED
    BY <2>1, <2>2, <2>3 DEF Talk, RomSteps, OkMeansFlashed, StagedFirst, EspSame, Full
<1> QED
  BY <1>1, <1>2

\* A routine of the firmware leaves internal flash and the staging slot alone; what it
\* reports of a backup is what it compared.
LEMMA GdFirmwareKeeps ==
  ASSUME TypeOK, RunsWhole, NoTrial, LinkTypeOK, Talk, EspSame, GdFirmware
  PROVE  Talk'
<1>1. /\ Firmware /\ down' = down /\ up \in Seq(Answers)
      /\ flash' = flash /\ slot'[S] = slot[S] /\ pc # "flasher" /\ pc' # "flasher"
      /\ task' = task \/ task' # "cmdBackup"
  BY FirmwareLasting DEF GdFirmware, LinkTypeOK
<1>2. PICK a \in Answers :
        /\ up' = up \/ (up' = Append(up, a) /\ task = "cmdBackup")
        /\ a.cmd = "backup" /\ (a.good => flash = Full(a.img))
  <2>1. pc \in SbPcs => flash.img \in Image /\ flash = Full(flash.img)
    BY DEF RunsWhole, Whole, FirmwarePcs
  <2> DEFINE a == IF pc \in SbPcs THEN FlashAck("backup", TRUE, flash.img) ELSE FlashAck("backup", FALSE, NoImage)
  <2>2. a \in Answers /\ a.cmd = "backup" /\ (a.good => flash = Full(a.img))
    BY <2>1 DEF FlashAck, Answers, SpiStages
  <2>3. up' = up \/ (up' = Append(up, a) /\ task = "cmdBackup")
    BY DEF GdFirmware
  <2> HIDE DEF a
  <2> QED
    BY <2>2, <2>3
<1>3. Asked'
  BY <1>1 DEF Talk, Asked, Sayable, AllIn, OnlyLast, EspSame
<1>4. up' # up =>
        /\ Len(up') = Len(up) + 1 /\ up'[Len(up) + 1] = a /\ \A i \in 1 .. Len(up) : up'[i] = up[i]
        /\ \A c : Has(up', c) => Has(up, c) \/ c = "backup"
  <2>1. /\ Len(Append(up, a)) = Len(up) + 1 /\ Append(up, a)[Len(up) + 1] = a
        /\ \A i \in 1 .. Len(up) : Append(up, a)[i] = up[i]
        /\ \A c : Has(Append(up, a), c) => Has(up, c) \/ a.cmd = c
    BY <1>1, Added
  <2> QED
    BY <1>2, <2>1, Zenon
<1>5. AnsweredLast'
  <2>1. CASE up' = up
    BY <1>1, <2>1 DEF Talk, AnsweredLast, EspSame
  <2>2. CASE up' # up
    <3>1. task = "cmdBackup"
      BY <1>2, <2>2
    <3> QED
      BY <1>4, <2>2, <3>1 DEF Talk, AnsweredLast, EspSame
  <2> QED
    BY <2>1, <2>2
<1>6. AcksTrue'
  <2>1. CASE up' = up
    BY <1>1, <2>1 DEF Talk, AcksTrue, Says, EspSame, Full
  <2>2. CASE up' # up
    <3>1. Says(a) \/ stage \notin SpiStages
      BY <1>2 DEF Says
    <3>2. \A i \in 1 .. Len(up') : i \in 1 .. Len(up) \/ i = Len(up) + 1
      BY <1>1, <1>4, <2>2
    <3>3. stage \in SpiStages => \A i \in 1 .. Len(up') : Says(up'[i])
      BY <1>4, <2>2, <3>1, <3>2 DEF Talk, AcksTrue
    <3>4. stage \in SpiStages => Says(ack)
      BY DEF Talk, AcksTrue
    <3> QED
      BY <1>1, <3>3, <3>4 DEF AcksTrue, Says, EspSame, Full
  <2> QED
    BY <2>1, <2>2
<1>7. SyncOnce'
  <2>1. Has(up', "rom") => Has(up, "rom")
    BY <1>4
  <2> QED
    BY <1>1, <2>1 DEF Talk, SyncOnce, EspSame
<1> QED
  BY <1>1, <1>3, <1>5, <1>6, <1>7 DEF Talk, RomSteps, OkMeansFlashed, StagedFirst, EspSame, Full

LEMMA GdCrashKeeps ==
  ASSUME Talk, EspSame, GdCrash
  PROVE  Talk'
<1>1. /\ down' = <<>> /\ up' = up /\ UNCHANGED <<flash, slot>> /\ pc # "flasher" /\ pc' # "flasher"
      /\ task' # "cmdBackup"
  BY DEF GdCrash, Crash, EndTask, BackupPcs, SbPcs
<1>2. Asked'
  BY <1>1, NothingSaid DEF Talk, Asked, EspSame
<1>3. AnsweredLast' /\ AcksTrue'
  BY <1>1 DEF Talk, AnsweredLast, Has, OnlyLast, AcksTrue, Says, EspSame, Full
<1>4. SyncOnce'
  BY <1>1 DEF Talk, SyncOnce, Has, EspSame
<1> QED
  BY <1>1, <1>2, <1>3, <1>4 DEF Talk, RomSteps, OkMeansFlashed, StagedFirst, EspSame, Full

LEMMA GdKeepsTalk ==
  ASSUME TypeOK, RunsWhole, NoTrial, LinkTypeOK, Talk, Gd
  PROVE  Talk'
<1>1. EspSame
  BY DEF Gd, esp, EspSame
<1> QED
  BY <1>1, ChipCommandKeeps, GdBackupKeeps, GdEnterKeeps, GdSyncKeeps, FlasherCommandKeeps,
     GdIgnoresKeeps, GdFirmwareKeeps, GdCrashKeeps DEF Gd


\* A message that is not among those on the way is not on the way.
LEMMA NoneOf ==
  ASSUME NEW q \in Seq(Requests), NEW C, AllIn(q, C), NEW c, c \notin C
  PROVE  ~Has(q, c)
BY DEF AllIn, Has

\* GO is on its way only when nothing else is going to be taken by the flasher: the
\* last write was acknowledged, and every later attempt starts with an empty link.
LEMMA StepGoIsLast ==
  ASSUME TypeOK, NoTrial, LinkTypeOK, Talk, GoIsLast, [OtaNext]_allVars
  PROVE  GoIsLast'
<1>0. down \in Seq(Requests) /\ Asked /\ AllIn(down, Sayable)
  BY DEF LinkTypeOK, Talk, Asked
<1>1. CASE down' = <<>>
  BY <1>1, NothingSaid DEF GoIsLast
<1>2. CASE (down' = down \/ (down # <<>> /\ down' = Tail(down))) /\ flash' = flash
  <2>1. CASE down' = down
    BY <1>2, <2>1 DEF GoIsLast, Has, AllIn, Whole, Full
  <2>2. CASE down # <<>> /\ down' = Tail(down)
    <3>1. (Has(down', "go") => Has(down, "go")) /\ (AllIn(down, {"go"}) => AllIn(down', {"go"}))
      BY <1>0, <2>2, Taken, Zenon
    <3> QED
      BY <1>2, <3>1 DEF GoIsLast, Whole, Full
  <2> QED
    BY <1>2, <2>1, <2>2
<1>3. CASE ~Has(down', "go")
  BY <1>3 DEF GoIsLast
<1>4. CASE User
  BY <1>3, <1>4, Alone DEF User, Start, Request, Has
\* Another command is asked for: no GO is on its way, and it is none.
<1>5. ASSUME NEW s, NEW p, Ask(s, p), s # "go", ~Has(down, "go"), Request(s, img, p) \in Requests
      PROVE  GoIsLast'
  <2>1. ~Has(Append(down, Request(s, img, p)), "go")
    <3>1. Request(s, img, p).cmd # "go"
      BY <1>5 DEF Request
    <3>2. down \in Seq(Requests) /\ Request(s, img, p) \in Requests
      BY <1>0, <1>5
    <3>3. Has(Append(down, Request(s, img, p)), "go")
          => Has(down, "go") \/ Request(s, img, p).cmd = "go"
      BY <3>2, Added
    <3> QED
      BY <1>5, <3>1, <3>3
  <2> QED
    BY <1>3, <1>5, <2>1 DEF Ask, Send
<1>6. \A s \in Stages \ {"idle"} : \A p \in Offsets : Request(s, img, p) \in Requests
  BY DEF LinkTypeOK, Request, Requests
<1>7. 0 \in Offsets /\ 1 \in Offsets
  BY DEF Offsets
<1>8. CASE Esp
  <2>1. CASE Receive \/ StagingFails \/ RomFails \/ Learn
    BY <1>2, <2>1 DEF Receive, StagingFails, RomFails, Learn, Finish, link, vars
  <2>2. CASE AfterBackup
    <3>1. ~Has(down, "go")
      BY <1>0, <2>2, NoneOf DEF AfterBackup, Sayable
    <3> QED
      BY <1>2, <1>5, <1>6, <1>7, <2>2, <3>1 DEF AfterBackup, Finish, Stages, SpiStages, vars
  <2>3. CASE AfterStaging
    <3>1. ~Has(down, "go")
      <4>1. stage \in {"stageErase", "stageWrite", "stageVerify"}
        BY <2>3 DEF AfterStaging, Answered, SpiStages
      <4> QED
        BY <1>0, <4>1, NoneOf DEF Sayable
    <3>2. off + 1 < Size[img] => off + 1 \in Offsets
      <4>1. off \in Nat /\ img \in Image /\ Size[img] \in 1 .. Block
        BY ContentFacts DEF LinkTypeOK, Offsets
      <4> QED
        BY <4>1 DEF Offsets
    <3> QED
      BY <1>5, <1>6, <1>7, <2>3, <3>1, <3>2 DEF AfterStaging, Stages, SpiStages
  <2>4. CASE EnterDone
    <3>1. ~Has(down, "go")
      BY <1>0, <2>4, NoneOf DEF EnterDone, Sayable
    <3> QED
      BY <1>5, <1>6, <1>7, <2>4, <3>1 DEF EnterDone, Stages, RomStages
  <2>5. CASE SyncFails
    <3>1. ~Has(down, "go")
      BY <1>0, <2>5, NoneOf DEF SyncFails, Sayable
    <3>2. off < Syncs => off + 1 \in Offsets
      <4>1. off \in Nat
        BY DEF LinkTypeOK, Offsets
      <4> QED
        BY <4>1 DEF Offsets
    <3> QED
      BY <1>2, <1>5, <1>6, <2>5, <3>1, <3>2 DEF SyncFails, Finish, Stages, RomStages, vars
  <2>6. CASE RomAnswer
    <3>1. flash' = flash /\ up # <<>>
      BY <2>6 DEF RomAnswer, vars
    <3>2. CASE stage = "sync" /\ Ask("erase", 0)
      <4>1. ~Has(down, "go")
        BY <1>0, <3>2, NoneOf DEF Sayable
      <4> QED
        BY <1>5, <1>6, <1>7, <3>2, <4>1 DEF Stages, RomStages
    <3>3. CASE stage = "erase" /\ Ask("write", 0)
      <4>1. ~Has(down, "go")
        BY <1>0, <3>3, NoneOf DEF Sayable
      <4> QED
        BY <1>5, <1>6, <1>7, <3>3, <4>1 DEF Stages, RomStages
    <3>4. off \in Nat /\ img \in Image /\ Size[img] \in 1 .. Block
      BY ContentFacts DEF LinkTypeOK, Offsets
    <3>5. CASE stage = "write" /\ off + 1 < Size[img] /\ Ask("write", off + 1)
      <4>1. ~Has(down, "go")
        BY <1>0, <3>5, NoneOf DEF Sayable
      <4>2. off + 1 \in Offsets
        BY <3>4, <3>5 DEF Offsets
      <4> QED
        BY <1>5, <1>6, <3>5, <4>1, <4>2 DEF Stages, RomStages
    <3>6. CASE stage = "write" /\ off + 1 = Size[img] /\ Ask("go", 0)
      <4>1. Len(down) + Len(up) <= 1 /\ Len(up) # 0
        <5>1. up \in Seq(Answers)
          BY DEF LinkTypeOK
        <5> QED
          BY <3>1, <3>6, <5>1, EmptySeq DEF Talk, RomSteps
      <4>2. down = <<>>
        <5>1. Len(down) \in Nat /\ Len(up) \in Nat
          BY <1>0 DEF LinkTypeOK
        <5>2. Len(down) = 0
          BY <4>1, <5>1
        <5> QED
          BY <1>0, <5>2, EmptySeq
      <4>3. Head(up) = Rom(TRUE) /\ flash = [img |-> img, pages |-> off + 1]
        <5>1. Head(up) = Rom(TRUE)
          BY <2>6, <3>6 DEF RomAnswer
        <5>2. Written(IF stage = "erase" THEN 0 ELSE off + 1)
          BY <3>1, <3>6, <5>1 DEF Talk, RomSteps
        <5>3. (IF stage = "erase" THEN 0 ELSE off + 1) = off + 1 /\ off + 1 # 0
          BY <3>4, <3>6
        <5>4. Written(off + 1)
          BY <5>2, <5>3, Zenon
        <5> QED
          BY <5>1, <5>3, <5>4 DEF Written
      <4>4. Whole(flash)
        BY <3>4, <3>6, <4>3 DEF Whole, Full
      <4>5. AllIn(down', {"go"})
        BY <3>6, <4>2, AskAlone
      <4> QED
        BY <3>1, <4>4, <4>5 DEF GoIsLast, Whole, Full
    <3>7. CASE stage = "go"
      BY <1>2, <2>6, <3>1, <3>7 DEF RomAnswer
    <3> QED
      BY <2>6, <3>2, <3>3, <3>5, <3>6, <3>7 DEF RomAnswer
  <2> QED
    BY <1>8, <2>1, <2>2, <2>3, <2>4, <2>5, <2>6 DEF Esp
<1>9. CASE EspReset \/ LoseRequest \/ LoseAnswer
  BY <1>2, <1>9 DEF EspReset, LoseRequest, LoseAnswer, vars
<1>10. CASE SupplyFails \/ SupplyBack
  BY <1>1, <1>2, <1>10 DEF SupplyFails, SupplyBack, PowerOn, link
<1>11. CASE Gd
  <2>1. CASE GdErase \/ GdWrite
    <3>1. /\ down # <<>> /\ down' = Tail(down) /\ Head(down).cmd \in {"erase", "write"}
      BY <2>1 DEF GdErase, GdWrite, Takes, Msg
    <3>2. ~AllIn(down, {"go"}) /\ (Has(down', "go") => Has(down, "go"))
      <4>1. AllIn(down, {"go"}) => Head(down).cmd \in {"go"}
        BY <1>0, <3>1, Taken, Zenon
      <4>2. Has(down', "go") => Has(down, "go")
        BY <1>0, <3>1, Taken, Zenon
      <4> QED
        BY <3>1, <4>1, <4>2
    <3> QED
      BY <3>2, <1>3 DEF GoIsLast
  <2>2. CASE GdFirmware
    BY <1>2, <2>2, FirmwareLasting DEF GdFirmware
  <2>3. CASE GdNoFlash \/ GdBackup \/ GdEraseStaging \/ GdWriteStaging \/ GdVerify \/ GdSync \/ GdGo
             \/ GdIgnores
    BY <1>2, <2>3 DEF GdNoFlash, GdBackup, GdEraseStaging, GdWriteStaging, GdVerify, GdSync, GdGo,
       GdIgnores, Takes, CmdBackup, CmdEraseStaging, CmdWriteStaging, FlGo, vars
  <2>4. CASE GdCrash
    BY <1>1, <2>4 DEF GdCrash
  \* ENTER_BOOTLOADER comes before any GO.
  <2>5. CASE GdEnter
    <3>1. down # <<>> /\ Head(down).cmd = "enter"
      BY <2>5 DEF GdEnter, Msg
    <3>2. ~Has(down, "go")
      <4>1. AllIn(down, {"go"}) => Head(down).cmd \in {"go"}
        BY <1>0, <3>1, Taken, Zenon
      <4> QED
        BY <3>1, <4>1 DEF GoIsLast
    <3>3. ASSUME Len(down) > 1, down' = <<down[Len(down)]>> PROVE ~Has(down', "go")
      <4>1. Len(down) \in 1 .. Len(down)
        BY <1>0, <3>3
      <4>2. down[Len(down)].cmd # "go"
        BY <3>2, <4>1, Zenon DEF Has
      <4> QED
        BY <3>3, <4>2, Alone DEF Has
    <3> QED
      BY <1>1, <1>3, <2>5, <3>3 DEF GdEnter
  <2> QED
    BY <1>11, <2>1, <2>2, <2>3, <2>4, <2>5 DEF Gd
<1>12. CASE UNCHANGED allVars
  BY <1>2, <1>12 DEF allVars, vars, link
<1> QED
  BY <1>4, <1>8, <1>9, <1>10, <1>11, <1>12 DEF OtaNext

LEMMA SameTalk ==
  ASSUME Talk, UNCHANGED allVars
  PROVE  Talk'
<1>1. UNCHANGED <<stage, img, off, ack, viaSpi, res, down, up, flash, slot, pc, task>>
  BY DEF allVars, vars, esp, link
<1>2. Asked' /\ AnsweredLast' /\ AcksTrue'
  BY <1>1 DEF Talk, Asked, Sayable, AllIn, OnlyLast, Has, AnsweredLast, AcksTrue, Says, Full
<1>3. SyncOnce'
  BY <1>1 DEF Talk, SyncOnce, Has, OnlyLast, AllIn
<1> QED
  BY <1>1, <1>2, <1>3 DEF Talk, RomSteps, Written, OkMeansFlashed, StagedFirst, Full

-----------------------------------------------------------------------------
(* Theorems *)

LEMMA UpdateInvInit == OtaInit => UpdateInv
<1> SUFFICES ASSUME OtaInit PROVE UpdateInv
  OBVIOUS
<1>1. IInv /\ LinkTypeOK
  BY InitIInv, LinkTypeInit DEF OtaInit
<1>2. NoTrial
  BY DEF OtaInit, Init, NoTrial, SbPcs, RestorePcs, BackupPcs
<1>3. Asked /\ AnsweredLast /\ GoIsLast
  BY NothingSaid DEF OtaInit, Asked, AnsweredLast, SpiStages, GoIsLast
<1>4. OtaTypeOK
  BY <1>1 DEF IInv, LinkTypeOK, OtaTypeOK
<1> QED
  BY <1>1, <1>2, <1>3, <1>4
  DEF OtaInit, UpdateInv, AcksTrue, SyncOnce, RomSteps, OkMeansFlashed, StagedFirst, SpiStages, RomStages

LEMMA UpdateInvStep == UpdateInv /\ [OtaNext]_allVars => UpdateInv'
<1> SUFFICES ASSUME UpdateInv, [OtaNext]_allVars PROVE UpdateInv'
  OBVIOUS
<1>1. IInv /\ TypeOK /\ RunsWhole /\ NoTrial /\ LinkTypeOK /\ Talk
  BY DEF UpdateInv, IInv, OtaTypeOK, LinkTypeOK, Talk
<1>2. IInv' /\ LinkTypeOK'
  BY <1>1, UpdateInvariantStep
<1>3. NoTrial'
  BY <1>1, StepNoTrial
<1>4. Talk'
  BY <1>1, <1>2, EspKeepsTalk, GdKeepsTalk, LoseRequestKeeps, LoseAnswerKeeps, SupplyKeeps, SameTalk
  DEF OtaNext
<1>5. OtaTypeOK'
  BY <1>2 DEF IInv, LinkTypeOK, OtaTypeOK
<1>6. GoIsLast'
  BY <1>1, StepGoIsLast DEF UpdateInv
<1> QED
  BY <1>2, <1>3, <1>4, <1>5, <1>6 DEF UpdateInv, Talk

\* UpdateInv is an invariant: at each stage of execute_ota it bounds what is on the link
\* and says what an acknowledgement there is worth.
THEOREM UpdateInvariance == OtaSpec => []UpdateInv
BY UpdateInvInit, UpdateInvStep, PTL DEF OtaSpec

\* What execute_ota reports as done is done: the whole image is in internal flash,
\* whatever was lost, late, or left over from an earlier attempt.
THEOREM OkIsFlashed == OtaSpec => []OkMeansFlashed
<1>1. UpdateInv => OkMeansFlashed
  BY DEF UpdateInv
<1> QED
  BY <1>1, UpdateInvariance, PTL

\* With a chip, ENTER_BOOTLOADER and the flasher's commands are sent only once the
\* image is complete in the staging slot, and it stays there until they are over.
THEOREM FlasherAfterStaging == OtaSpec => []StagedFirst
<1>1. UpdateInv => StagedFirst
  BY DEF UpdateInv
<1> QED
  BY <1>1, UpdateInvariance, PTL

\* Only a power cut makes the GD32 start an incomplete internal flash: whatever fails,
\* is lost, late or left over between the mass erase and the last page, and whenever
\* the ESP32 restarts, the GD32 stays in the flasher (execute_ota's error returns).
THEOREM FlasherHoldsOn == OtaSpec => OnlyPowerCutBricks
<1>1. UpdateInv /\ [OtaNext]_allVars => [pc' = "dead" /\ pc # "dead" => pc = "off"]_allVars
  <2> SUFFICES ASSUME UpdateInv, [OtaNext]_allVars, pc' = "dead", pc # "dead"
               PROVE  pc = "off"
    OBVIOUS
  <2>1. TypeOK /\ NoTrial /\ LinkTypeOK /\ GoIsLast
    BY DEF UpdateInv, IInv, OtaTypeOK, LinkTypeOK
  <2>2. CASE UNCHANGED vars
    BY <2>2 DEF vars
  <2>3. CASE Firmware
    BY <2>1, <2>3, GuardAtRest DEF Firmware, BkErase, BkEraseFails, BkProgram, BkProgramFails, BkVerify,
       BkVerifyFails, SbErase, SbEraseFails, SbProgram, SbProgramFails, GuardNoFlash, GuardFirstBoot,
       GuardConfirmed, Return, StartBackup, StartSbWrite, EndTask
  <2>4. CASE Crash \/ PowerCut \/ CmdBackup(B) \/ CmdEnterBootloader
    BY <2>4 DEF Crash, PowerCut, CmdBackup, CmdEnterBootloader, StartBackup
  <2>5. CASE PowerOn
    BY <2>5 DEF PowerOn
  <2>6. CASE GdErase \/ GdWrite \/ GdEraseStaging \/ GdWriteStaging
    BY <2>6 DEF GdErase, GdWrite, FlErase, FlWrite, GdEraseStaging, GdWriteStaging, CmdEraseStaging,
       CmdWriteStaging
  <2>7. CASE GdGo
    <3>1. down # <<>> /\ Head(down).cmd = "go" /\ pc' = ResetInto(flash)
      BY <2>7 DEF GdGo, Takes, Msg, FlGo
    <3>2. Has(down, Head(down).cmd)
      BY <2>1, <3>1, Taken, Zenon DEF LinkTypeOK
    <3> QED
      BY <2>1, <3>1, <3>2 DEF GoIsLast, ResetInto
  <2> QED
    BY <2>1, <2>2, <2>3, <2>4, <2>5, <2>6, <2>7, StepOfTheBoard DEF BoardStep
<1> QED
  BY <1>1, UpdateInvariance, PTL DEF OtaSpec, OnlyPowerCutBricks
=============================================================================
