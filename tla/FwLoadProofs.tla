----------------------------- MODULE FwLoadProofs -----------------------------
(* The firmware loader, for an image of any size and any answers of the    *)
(* dongle.                                                                 *)
EXTENDS FwLoad, SequenceTheorems, TLAPS

Chunk == [off : Nat, len : Nat]

(* The loader's own variables, and that only a load is in its loop.        *)
LoopInv ==
  /\ pc \in {"loop", "top", "poll"}
  /\ loading_fw \in {0, 1, 2, 3}
  /\ fw_offset \in Nat /\ fw_offset <= FwSize
  /\ n \in Nat /\ n <= ACL_MPS
  /\ cmd_state \in {0, 1}
  /\ aclo_busy \in {0, 1}
  /\ aclo_state \in {0, 1}
  /\ aclo_len \in Nat /\ aclo_len <= ACL_MPS
  /\ taken \in Seq(Chunk)
  /\ \A i \in DOMAIN taken : taken[i].off <= FwSize /\ taken[i].len <= ACL_MPS
  /\ pc = "loop" => aclo_busy = 0
  /\ pc = "poll" => aclo_busy = 1
  /\ pc # "loop" => loading_fw = 2
  /\ loading_fw = 3 => fw_offset = FwSize

(* The chunk that is out starts at fw_offset, lies within the image and    *)
(* is n long: n outlives the pass of the loop that assigns it.             *)
ChunkInv ==
  /\ aclo_state = 1 => aclo_busy = 1 /\ chunk = [off |-> fw_offset, len |-> aclo_len]
  /\ aclo_busy = 1 => 0 < n /\ n = aclo_len /\ fw_offset + n <= FwSize
  /\ urb["ACLO"] = "ACTIVE" => aclo_state = 1

(* The dongle has what lies before fw_offset, and the chunk that is out    *)
(* once its channel is done.                                               *)
Had == fw_offset + (IF aclo_state = 1 /\ urb["ACLO"] = "DONE" THEN n ELSE 0)

HadInv == End(Len(taken)) = Had

FwInv == LoopInv /\ ChunkInv /\ HadInv /\ FirmwareInOrder

-----------------------------------------------------------------------------
(* The library's part.                                                     *)
LEMMA LibTypeInit == Init => HostLibTypeOK
<1> SUFFICES ASSUME Init PROVE HostLibTypeOK
  OBVIOUS
<1>1. connected \in BOOLEAN /\ wireless \in BOOLEAN
  BY Zenon DEF Init, HostLibInit
<1> QED
  BY <1>1, HostLibAssumed DEF HostLibAssumption, Init, HostLibInit, HostLibTypeOK, GState, EP

(* The library keeps its types in every step of the loader.                *)
LEMMA LibTypeStep == HostLibTypeOK /\ [Next]_vars => HostLibTypeOK'
<1> SUFFICES ASSUME HostLibTypeOK, [Next]_vars PROVE HostLibTypeOK'
  OBVIOUS
<1> USE HostLibAssumed
    DEF HostLibAssumption, HostLibTypeOK, GState, EP, vars, libvars, portvars, ctlvars,
        idlevars, libframe
<1>1. CASE FwInterfaceInit
  BY <1>1 DEF FwInterfaceInit
<1>2. CASE FwInterfaceDeInit
  BY <1>2 DEF FwInterfaceDeInit, HostDeInit
<1>3. CASE FwCommand
  BY <1>3 DEF FwCommand, CtlReq
<1>4. CASE FwEnter \/ FwChunk \/ FwDone \/ FwAgain \/ FwPollDone \/ FwPollWait
  <2>1. UNCHANGED libframe
    BY <1>4 DEF FwEnter, FwChunk, FwDone, FwAgain, FwPollDone, FwPollWait
  <2> QED
    BY <2>1
<1>5. CASE FwPollSend
  BY <1>5 DEF FwPollSend, Submit
<1>6. CASE FwPollStall
  BY <1>6 DEF FwPollStall, ClrFeature, CtlReq
<1>7. CASE FwProcess
  <2>1. ASSUME Enumerate, wireless' = FALSE PROVE HostLibTypeOK'
    BY <2>1 DEF Enumerate
  <2>2. ASSUME NEW outcome \in CtlOutcomes, HandleControl(outcome) PROVE HostLibTypeOK'
    BY <2>2 DEF HandleControl
  <2> QED
    BY <1>7, <2>1, <2>2 DEF FwProcess
<1>8. CASE FwAnswer
  <2>1. ASSUME NEW outcome \in UrbOutcomes["ACLO"], UrbAnswer("ACLO", outcome)
        PROVE  HostLibTypeOK'
    BY <2>1 DEF UrbAnswer, Refused
  <2> QED
    BY <1>8, <2>1 DEF FwAnswer
<1>9. CASE Plug
  <2>1. connected' \in BOOLEAN
    BY <1>9, Zenon DEF Plug
  <2> QED
    BY <1>9, <2>1 DEF Plug
<1>10. CASE Unplug
  <2>1. connected' \in BOOLEAN
    BY <1>10, Zenon DEF Unplug
  <2> QED
    BY <1>10, <2>1 DEF Unplug
<1>11. CASE UNCHANGED vars
  BY <1>11
<1> QED
  BY <1>1, <1>2, <1>3, <1>4, <1>5, <1>6, <1>7, <1>8, <1>9, <1>10, <1>11 DEF Next, MainStep

-----------------------------------------------------------------------------
(* An empty image in the dongle, and nothing out.                          *)
LEMMA FwInvInit == Init => FwInv
BY FwLoadAssumed DEF Init, HostLibInit, EP, FwInv, LoopInv, ChunkInv, HadInv, Had,
   FirmwareInOrder, End, ACL_MPS, Chunk

(* The same of a sequence of chunks.                                       *)
EndOf(s, i) == IF i = 0 THEN 0 ELSE s[i].off + s[i].len
InOrder(s) == \A i \in DOMAIN s : s[i].off = EndOf(s, i - 1)

LEMMA AsSequence == /\ \A i : End(i) = EndOf(taken, i)
                    /\ FirmwareInOrder = InOrder(taken)
BY DEF End, EndOf, FirmwareInOrder, InOrder

(* A chunk that starts where the last one ends.                            *)
LEMMA AppendInOrder ==
  ASSUME NEW s \in Seq(Chunk), NEW c \in Chunk, InOrder(s), c.off = EndOf(s, Len(s))
  PROVE  InOrder(Append(s, c)) /\ EndOf(Append(s, c), Len(Append(s, c))) = c.off + c.len
<1> DEFINE t == Append(s, c)
           m == Len(s)
<1>1. m \in Nat /\ DOMAIN s = 1 .. m /\ t \in Seq(Chunk) /\ Len(t) = m + 1 /\ DOMAIN t = 1 .. m + 1
  OBVIOUS
<1>2. t[m + 1] = c /\ \A i \in 1 .. m : t[i] = s[i]
  OBVIOUS
<1> HIDE DEF t, m
<1>3. EndOf(t, m + 1) = c.off + c.len
  BY <1>1, <1>2 DEF EndOf
<1>4. \A i \in 0 .. m : EndOf(t, i) = EndOf(s, i)
  BY <1>1, <1>2 DEF EndOf
<1>5. ASSUME NEW i \in 1 .. m + 1 PROVE t[i].off = EndOf(t, i - 1)
  <2>1. CASE i = m + 1
    BY <2>1, <1>1, <1>2, <1>4 DEF m
  <2>2. CASE i \in 1 .. m
    <3>1. i - 1 \in 0 .. m /\ s[i].off = EndOf(s, i - 1)
      BY <2>2, <1>1 DEF InOrder
    <3> QED
      BY <3>1, <2>2, <1>2, <1>4
  <2> QED
    BY <2>1, <2>2, <1>1
<1> QED
  BY <1>1, <1>3, <1>5 DEF InOrder, t

(* An element of the longer sequence is the new chunk or an old one.       *)
LEMMA AppendElement ==
  ASSUME NEW s \in Seq(Chunk), NEW c \in Chunk, NEW i \in DOMAIN Append(s, c)
  PROVE  Append(s, c)[i] = c \/ (i \in DOMAIN s /\ Append(s, c)[i] = s[i])
<1>1. Len(s) \in Nat /\ DOMAIN s = 1 .. Len(s) /\ DOMAIN Append(s, c) = 1 .. Len(s) + 1
  OBVIOUS
<1>2. Append(s, c)[Len(s) + 1] = c /\ \A j \in 1 .. Len(s) : Append(s, c)[j] = s[j]
  OBVIOUS
<1>3. i \in 1 .. Len(s) \/ i = Len(s) + 1
  BY <1>1
<1> QED
  BY <1>1, <1>2, <1>3

(* A step that changes neither what is taken nor what is out.              *)
LEMMA TakenSame ==
  ASSUME taken' = taken, Had' = Had, HadInv, FirmwareInOrder
  PROVE  HadInv' /\ FirmwareInOrder'
BY DEF HadInv, FirmwareInOrder, End

(* A chunk is taken: the one at fw_offset.                                 *)
LEMMA TakenMore ==
  ASSUME FwInv, urb["ACLO"] = "ACTIVE", taken' = Append(taken, chunk)
  PROVE  /\ FirmwareInOrder'
         /\ End(Len(taken))' = fw_offset + n
         /\ taken' \in Seq(Chunk)
         /\ \A i \in DOMAIN taken' : taken'[i].off <= FwSize /\ taken'[i].len <= ACL_MPS
<1>1. chunk \in Chunk /\ chunk.off = fw_offset /\ chunk.len = n /\ Had = fw_offset
  BY DEF FwInv, LoopInv, ChunkInv, Chunk, Had
<1>2. taken \in Seq(Chunk) /\ InOrder(taken) /\ chunk.off = EndOf(taken, Len(taken))
  BY <1>1, AsSequence DEF FwInv, LoopInv, HadInv
<1>3. InOrder(taken') /\ EndOf(taken', Len(taken')) = fw_offset + n
  BY <1>1, <1>2, AppendInOrder
<1>4. FirmwareInOrder'
  BY <1>3 DEF FirmwareInOrder, InOrder, End, EndOf
<1>5. End(Len(taken))' = fw_offset + n
  BY <1>3 DEF End, EndOf
<1>6. taken' \in Seq(Chunk)
  BY <1>1, <1>2
<1>7. ASSUME NEW i \in DOMAIN taken'
      PROVE  taken'[i].off <= FwSize /\ taken'[i].len <= ACL_MPS
  <2>1. chunk.off <= FwSize /\ chunk.len <= ACL_MPS
    BY <1>1 DEF FwInv, LoopInv
  <2>2. taken'[i] = chunk \/ (i \in DOMAIN taken /\ taken'[i] = taken[i])
    BY <1>1, <1>2, <1>7, AppendElement
  <2> QED
    BY <2>1, <2>2 DEF FwInv, LoopInv
<1> QED
  BY <1>4, <1>5, <1>6, <1>7

(* What the loader's own steps do to the loop and to the chunk that is out.*)
LEMMA FwInvStep == HostLibTypeOK /\ FwInv /\ [Next]_vars => FwInv'
<1> SUFFICES ASSUME HostLibTypeOK, FwInv, [Next]_vars PROVE FwInv'
  OBVIOUS
<1> USE FwLoadAssumed DEF FwInv, LoopInv, ChunkInv, Had, ACL_MPS, libvars, portvars, ctlvars,
        idlevars, libframe, fwvars, dlvars
<1>1. CASE FwInterfaceInit
  <2>1. LoopInv' /\ ChunkInv'
    BY <1>1 DEF FwInterfaceInit
  <2>2. HadInv' /\ FirmwareInOrder'
    BY <1>1 DEF FwInterfaceInit, HadInv, FirmwareInOrder, End
  <2> QED
    BY <2>1, <2>2
<1>2. CASE FwInterfaceDeInit
  BY <1>2, TakenSame DEF FwInterfaceDeInit, HostDeInit, EP
<1>3. CASE FwCommand
  BY <1>3, TakenSame DEF FwCommand
<1>4. CASE FwEnter
  BY <1>4, TakenSame DEF FwEnter
<1>5. CASE FwChunk
  <2>1. LoopInv' /\ ChunkInv'
    BY <1>5 DEF FwChunk, Left
  <2>2. Had' = Had /\ taken' = taken
    BY <1>5 DEF FwChunk
  <2> QED
    BY <2>1, <2>2, TakenSame
<1>6. CASE FwDone
  BY <1>6, TakenSame DEF FwDone, Left
<1>7. CASE FwAgain
  BY <1>7, TakenSame DEF FwAgain
<1>8. CASE FwPollSend
  <2>1. urb'["ACLO"] = "ACTIVE"
    BY <1>8 DEF FwPollSend, Submit, HostLibTypeOK, EP
  <2>2. LoopInv' /\ ChunkInv'
    BY <1>8, <2>1 DEF FwPollSend
  <2>3. Had' = Had /\ taken' = taken
    BY <1>8, <2>1 DEF FwPollSend
  <2> QED
    BY <2>2, <2>3, TakenSame
<1>9. CASE FwPollDone
  <2>1. LoopInv' /\ ChunkInv'
    BY <1>9 DEF FwPollDone
  <2>2. Had' = Had /\ taken' = taken
    BY <1>9 DEF FwPollDone
  <2> QED
    BY <2>1, <2>2, TakenSame
<1>10. CASE FwPollStall
  BY <1>10, TakenSame DEF FwPollStall
<1>11. CASE FwPollWait
  BY <1>11, TakenSame DEF FwPollWait
<1>12. CASE FwProcess
  <2>1. urb' = urb /\ UNCHANGED fwvars
    BY <1>12 DEF FwProcess, Enumerate, HandleControl
  <2> QED
    BY <2>1, TakenSame
<1>13. CASE FwAnswer
  <2>1. PICK outcome \in UrbOutcomes["ACLO"] :
          /\ UrbAnswer("ACLO", outcome)
          /\ taken' = IF outcome = "DONE" THEN Append(taken, chunk) ELSE taken
    BY <1>13 DEF FwAnswer
  <2>2. urb["ACLO"] = "ACTIVE" /\ urb'["ACLO"] \in {outcome, "NOTREADY"} \ {"ACTIVE"}
    BY <2>1, HostLibAssumed DEF UrbAnswer, Refused, HostLibAssumption, HostLibTypeOK, EP
  <2>3. outcome = "DONE" => urb'["ACLO"] = "DONE"
    BY <2>1, HostLibAssumed DEF UrbAnswer, Refused, HostLibAssumption, HostLibTypeOK, EP
  <2>4. UNCHANGED <<pc, loading_fw, cmd_state, dlvars>>
    BY <1>13 DEF FwAnswer
  <2>5. CASE outcome = "DONE"
    <3>1. FirmwareInOrder' /\ HadInv'
      BY <2>1, <2>2, <2>3, <2>4, <2>5, TakenMore DEF HadInv
    <3>2. LoopInv' /\ ChunkInv'
      BY <2>1, <2>2, <2>3, <2>4, <2>5, TakenMore
    <3> QED
      BY <3>1, <3>2
  <2>6. CASE outcome # "DONE"
    <3>1. taken' = taken /\ urb'["ACLO"] # "DONE"
      <4>1. taken' = taken
        BY <2>1, <2>6
      <4> QED
        BY <4>1, <2>2, <2>6
    <3>2. Had' = Had
      BY <3>1, <2>2, <2>4
    <3>3. LoopInv' /\ ChunkInv'
      BY <3>1, <2>2, <2>4
    <3> QED
      BY <3>1, <3>2, <3>3, TakenSame
  <2> QED
    BY <2>5, <2>6
<1>14. CASE (Plug \/ Unplug) /\ UNCHANGED fwvars
  <2>1. urb' = urb /\ UNCHANGED fwvars
    BY <1>14 DEF Plug, Unplug
  <2> QED
    BY <2>1, TakenSame
<1>15. CASE UNCHANGED vars
  BY <1>15, TakenSame DEF vars
<1> QED
  BY <1>1, <1>2, <1>3, <1>4, <1>5, <1>6, <1>7, <1>8, <1>9, <1>10, <1>11, <1>12, <1>13,
     <1>14, <1>15 DEF Next, MainStep

(* The library and the loader together.                                    *)
LEMMA FwAlways == Spec => [](HostLibTypeOK /\ FwInv)
BY LibTypeInit, LibTypeStep, FwInvInit, FwInvStep, PTL DEF Spec

(* A chunk that lies within bounds.                                        *)
LEMMA ChunkWithin ==
  ASSUME NEW c \in Chunk, c.off <= FwSize, c.len <= 64
  PROVE  c \in [off : 0 .. FwSize, len : 0 .. 64]
<1> DEFINE a == c.off
           b == c.len
<1>1. c = [off |-> a, len |-> b] /\ a \in Nat /\ b \in Nat
  BY DEF Chunk
<1>2. a \in 0 .. FwSize /\ b \in 0 .. 64
  BY <1>1, FwLoadAssumed
<1> HIDE DEF a, b
<1>3. [off |-> a, len |-> b] \in [off : 0 .. FwSize, len : 0 .. 64]
  BY <1>2
<1> QED
  BY <1>1, <1>3

(* Every variable of the loader keeps to its type, the offset within the   *)
(* image.                                                                  *)
THEOREM FwTypeCorrect == Spec => []FwTypeOK
<1>1. HostLibTypeOK /\ FwInv => FwTypeOK
  <2> SUFFICES ASSUME HostLibTypeOK, FwInv PROVE FwTypeOK
    OBVIOUS
  <2> USE FwLoadAssumed DEF FwInv, LoopInv, ACL_MPS
  <2>1. \A i \in DOMAIN taken : taken[i] \in [off : 0 .. FwSize, len : 0 .. ACL_MPS]
    <3>1. \A i \in DOMAIN taken : taken[i] \in Chunk
      OBVIOUS
    <3> QED
      BY <3>1, ChunkWithin
  <2> QED
    BY <2>1 DEF FwTypeOK
<1> QED
  BY <1>1, FwAlways, PTL

(* The dongle gets the image without a gap, an overlap or a repetition.    *)
THEOREM FirmwareAlwaysInOrder == Spec => []FirmwareInOrder
BY FwAlways, PTL DEF FwInv

(* "fw-done" only with the whole image in the dongle.                      *)
THEOREM FirmwareAlwaysComplete == Spec => []FirmwareComplete
<1>1. FwInv => FirmwareComplete
  BY DEF FwInv, LoopInv, ChunkInv, HadInv, Had, FirmwareComplete
<1> QED
  BY <1>1, FwAlways, PTL

-----------------------------------------------------------------------------
(* No control request is out when the loop begins; the loop keeps          *)
(* USBH_Process out, so that one it starts is never answered.              *)
ControlInv ==
  /\ loading_fw = 2 /\ pc = "loop" => RequestState = "CMD_SEND" /\ gState # "HOST_CTRL_XFER"
  /\ pc # "loop" => \/ RequestState = "CMD_SEND" /\ gState # "HOST_CTRL_XFER"
                    \/ ControlState = "BUSY" /\ Spins

(* ControlInv at first: nothing is loaded.                                 *)
LEMMA ControlInvInit == Init => ControlInv
BY DEF Init, HostLibInit, ControlInv

(* Each step keeps ControlInv, and none gets the loop out of a spin.       *)
LEMMA ControlInvStep ==
  ASSUME HostLibTypeOK, FwInv, ControlInv, [Next]_vars
  PROVE  ControlInv' /\ (Spins => Spins')
<1> USE DEF ControlInv, Spins, FwInv, LoopInv, ChunkInv, libvars, portvars, ctlvars, idlevars,
        libframe, fwvars, dlvars
<1>1. CASE FwInterfaceInit
  BY <1>1 DEF FwInterfaceInit
<1>2. CASE FwInterfaceDeInit
  BY <1>2 DEF FwInterfaceDeInit, HostDeInit
<1>3. CASE FwCommand
  BY <1>3 DEF FwCommand, CtlReq, CtlResult
<1>4. CASE FwEnter \/ FwChunk \/ FwDone \/ FwAgain
  BY <1>4 DEF FwEnter, FwChunk, FwDone, FwAgain
<1>5. CASE FwPollSend \/ FwPollDone \/ FwPollWait
  BY <1>5 DEF FwPollSend, Submit, FwPollDone, FwPollWait
<1>6. CASE FwPollStall
  BY <1>6 DEF FwPollStall, ClrFeature, CtlReq, CtlResult
<1>7. CASE FwProcess
  BY <1>7 DEF FwProcess, Enumerate, HandleControl
<1>8. CASE FwAnswer
  <2>1. urb["ACLO"] = "ACTIVE" /\ UNCHANGED <<pc, loading_fw, dlvars, ctlvars>>
    BY <1>8 DEF FwAnswer, UrbAnswer
  <2> QED
    BY <2>1
<1>9. CASE (Plug \/ Unplug) /\ UNCHANGED fwvars
  BY <1>9 DEF Plug, Unplug
<1>10. CASE UNCHANGED vars
  BY <1>10 DEF vars
<1> QED
  BY <1>1, <1>2, <1>3, <1>4, <1>5, <1>6, <1>7, <1>8, <1>9, <1>10 DEF Next, MainStep

LEMMA ControlAlways == Spec => []ControlInv
<1>1. HostLibTypeOK /\ FwInv /\ ControlInv /\ [Next]_vars => ControlInv'
  BY ControlInvStep
<1> QED
  BY <1>1, ControlInvInit, FwAlways, PTL DEF Spec

(* A chunk that the dongle halts, fails or refuses once is never sent      *)
(* again, with or without the dongle, and the loop never ends: nobody      *)
(* carries the request to clear a halt, and the other two ends are taken   *)
(* for "not yet".  This is why LoadEnds leaves these cases out.            *)
THEOREM SpinNeverEnds == Spec => [][Spins => Spins']_vars
<1>1. HostLibTypeOK /\ FwInv /\ ControlInv /\ [Next]_vars => (Spins => Spins')
  BY ControlInvStep
<1> QED
  BY <1>1, ControlAlways, FwAlways, PTL DEF Spec

(* In the loop the offset moves only when a chunk is done, and then by the *)
(* length of that chunk, which is never 0: the load comes nearer its end   *)
(* with every chunk the dongle takes and never falls back.                 *)
THEOREM LoadGetsNearer ==
  Spec => [][pc # "loop" => \/ fw_offset' = fw_offset
                            \/ /\ FwPollDone
                               /\ fw_offset' = fw_offset + chunk.len
                               /\ fw_offset' > fw_offset]_vars
<1>1. ASSUME FwInv, [Next]_vars, pc # "loop"
      PROVE  \/ fw_offset' = fw_offset
             \/ FwPollDone /\ fw_offset' = fw_offset + chunk.len /\ fw_offset' > fw_offset
  <2>1. FwPollDone \/ fw_offset' = fw_offset
    BY <1>1 DEF Next, MainStep, FwInterfaceInit, FwInterfaceDeInit, FwProcess, FwCommand,
       FwEnter, FwChunk, FwDone, FwAgain, FwPollSend, FwPollStall, FwPollWait, FwAnswer,
       vars, fwvars, dlvars
  <2>2. ASSUME FwPollDone
        PROVE  fw_offset' = fw_offset + chunk.len /\ fw_offset' > fw_offset
    BY <1>1, <2>2 DEF FwPollDone, FwInv, LoopInv, ChunkInv
  <2> QED
    BY <2>1, <2>2
<1> QED
  BY <1>1, FwAlways, PTL DEF Spec
=============================================================================
