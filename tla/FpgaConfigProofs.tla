-------------------------- MODULE FpgaConfigProofs --------------------------
(***************************************************************************)
(* Proofs of the safety properties of FpgaConfig for every number of       *)
(* retries, runs and polls and every size of image.                        *)
(***************************************************************************)
EXTENDS FpgaConfig, TLAPS

\* The steps between the reset and the end of an attempt.
Loading ==
  {"step6", "step8", "step9", "step10", "step11", "clear_done", "set_count", "step12", "step13"}

\* What every step knows of the control register.
ControlInv ==
  /\ pc \in Attempting => ctrl_reg = ctrl
  /\ pc \notin {"enable", "exit"} => ctrl.en
  /\ pc \in {"enable", "msel", "open"} => attempt = 0
  /\ pc \in Attempting \cup {"configure"} => attempt < Retries
  /\ pc \in Attempting \cup {"open", "configure"} => msel \in DOMAIN Width
  /\ pc \in Attempting =>
       powered /\ ctrl.width = Width[msel] /\ ctrl.cdratio = 8 /\ ~ctrl.nce
  /\ pc \in {"step4", "step5"} => ctrl.ncfgpull
  /\ pc \in Loading => ~ctrl.ncfgpull
  /\ pc \in {"configure", "disable", "exit"} /\ attempt > 0 /\ powered => ~ctrl.ncfgpull
  /\ pc \in {"step9", "step10", "step11"} => ctrl.axicfgen
  /\ runs = 1 /\ ctrl.ncfgpull => pc \in {"step4", "step5"}
  /\ runs = 1 /\ ctrl.axicfgen => pc \in {"step9", "step10", "step11"}

\* What every step knows of the FPGA: a reset it saw empties it, and from there
\* on only this attempt's chunks fill it.
FabricInv ==
  /\ mode = "RESET" => ~conf_done /\ loaded = 0
  /\ pc = "step5" /\ status = "SUCCESS" => mode = "RESET"
  /\ pc = "step6" => mode \in {"RESET", "CFG"} /\ ~conf_done /\ loaded = 0
  /\ pc = "step8" => mode = "CFG" /\ ~conf_done /\ loaded = 0
  /\ pc \in {"step3", "step4", "step5", "step6", "step8"} => remaining = ImageBytes
  /\ pc = "step9" /\ remaining > 0 =>
       mode = "CFG" /\ ~conf_done /\ 4 * loaded + remaining = ImageBytes
  /\ pc = "step9" /\ remaining = 0 => loaded = Words(ImageBytes)
  /\ pc \in Loading \ {"step6", "step8", "step9"} => loaded = Words(ImageBytes)
  /\ pc \in {"step11", "clear_done", "set_count", "step12", "step13"}
       /\ data_status = "SUCCESS" => conf_done
  /\ opened /\ pc \in {"disable", "exit"} /\ result = "SUCCESS" =>
       attempt > 0 /\ mode = "USER_MODE" /\ conf_done /\ loaded = Words(ImageBytes)

IInv == TypeOK /\ ControlInv /\ FabricInv

----------------------------------------------------------------------------
LEMMA WordsNat == ASSUME NEW n \in Nat PROVE Words(n) \in Nat
  BY DEF Words

\* The initial states are of the right types, whatever the boot left in the FPGA.
LEMMA TypeInit == Init => TypeOK
<1> SUFFICES ASSUME Init PROVE TypeOK
  OBVIOUS
<1>1. conf_done \in BOOLEAN
  BY DEF Init
<1>2. /\ status \in {"SUCCESS", "TMO"}
      /\ data_status \in {"SUCCESS", "CFG", "CRC"}
      /\ result \in {"SUCCESS", "ERROR"}
      /\ mode \in {"RESET", "CFG", "INIT", "USER_MODE"}
  BY DEF Init
<1>3. /\ attempt \in 0 .. Retries /\ remaining \in 0 .. ImageBytes
      /\ polls \in 0 .. Timeout /\ runs \in 1 .. MaxRuns /\ loaded \in Nat
  BY ConfigAssumption DEF Init
<1>4. /\ opened \in BOOLEAN /\ nstatus \in BOOLEAN /\ crc_error \in BOOLEAN
      /\ dclk \in BOOLEAN /\ dcntdone \in BOOLEAN /\ powered \in BOOLEAN
  BY DEF Init
<1>5. pc \in Steps /\ msel \in Modes /\ ctrl \in Control /\ ctrl_reg \in Control
  BY DEF Init, Steps
<1> QED
  BY <1>1, <1>2, <1>3, <1>4, <1>5 DEF TypeOK

\* Every step keeps the types.
LEMMA TypeStep == TypeOK /\ ControlInv /\ [Next]_vars => TypeOK'
<1> SUFFICES ASSUME TypeOK, ControlInv, [Next]_vars PROVE TypeOK'
  OBVIOUS
<1> USE ConfigAssumption DEF Locals, Registers, Fabric, Dclk
<1>1. CASE Enable
  <2>1. ctrl' \in Control /\ ctrl_reg' \in Control
    BY <1>1 DEF Enable, TypeOK, Control
  <2> QED
    BY <1>1, <2>1 DEF Enable, Goto, ControlInv, TypeOK, Steps, Attempting
<1>2. CASE CheckMsel
  BY <1>2 DEF CheckMsel, ControlInv, TypeOK, Steps, Attempting
<1>3. CASE OpenImage
  <2>1. opened' \in BOOLEAN /\ result' \in {"SUCCESS", "ERROR"} /\ pc' \in Steps
    BY <1>3 DEF OpenImage, TypeOK, Steps
  <2>2. attempt' \in 0 .. Retries
    BY <1>3 DEF OpenImage
  <2> QED
    BY <1>3, <2>1, <2>2 DEF OpenImage, TypeOK
<1>4. CASE Configure
  <2>1. ctrl' \in Control /\ ctrl_reg' \in Control
    <3>1. msel \in DOMAIN Width => Width[msel] \in {16, 32}
      BY DEF Width
    <3>2. msel \in DOMAIN Width
      BY <1>4 DEF Configure, Step1Control, ControlInv
    <3>3. CASE UNCHANGED <<ctrl, ctrl_reg>>
      BY <3>3 DEF TypeOK
    <3>4. ASSUME WriteControl([ctrl EXCEPT !.cdratio = 8, !.width = Width[msel], !.nce = FALSE])
          PROVE  ctrl' \in Control /\ ctrl_reg' \in Control
      BY <3>1, <3>2, <3>4 DEF WriteControl, TypeOK, Control
    <3> QED
      BY <1>4, <3>3, <3>4 DEF Configure, Step1Control
  <2> QED
    BY <1>4, <2>1 DEF Configure, Step1Control, WriteControl, Return, ControlInv, TypeOK, Steps, Attempting
<1>5. CASE Step3
  <2>1. ctrl' \in Control /\ ctrl_reg' \in Control
    BY <1>5 DEF Step3, WriteControl, TypeOK, Control
  <2> QED
    BY <1>5, <2>1 DEF Step3, Goto, WriteControl, ControlInv, TypeOK, Steps, Attempting
<1>6. CASE Step4
  BY <1>6 DEF Step4, Poll, Settle, ControlInv, TypeOK, Steps, Attempting
<1>7. CASE Step5
  <2>1. ctrl' \in Control /\ ctrl_reg' \in Control
    BY <1>7 DEF Step5, WriteControl, TypeOK, Control
  <2> QED
    BY <1>7, <2>1 DEF Step5, WriteControl, Return, ControlInv, TypeOK, Steps, Attempting
<1>8. CASE Step6
  BY <1>8 DEF Step6, Poll, Settle, Finish, Return, ControlInv, TypeOK, Steps, Attempting
<1>9. CASE Step8
  <2>1. ctrl' \in Control /\ ctrl_reg' \in Control
    BY <1>9 DEF Step8, WriteControl, TypeOK, Control
  <2> QED
    BY <1>9, <2>1 DEF Step8, Goto, WriteControl, ControlInv, TypeOK, Steps, Attempting
<1>10. CASE Step9
  BY WordsNat, <1>10 DEF Step9, Chunk, ControlInv, TypeOK, Steps, Attempting
<1>11. CASE Step10
  BY <1>11 DEF Step10, Poll, SettleData, ControlInv, TypeOK, Steps, Attempting
<1>12. CASE Step11
  <2>1. ctrl' \in Control /\ ctrl_reg' \in Control
    BY <1>12 DEF Step11, WriteControl, TypeOK, Control
  <2> QED
    BY <1>12, <2>1 DEF Step11, Goto, WriteControl, ControlInv, TypeOK, Steps, Attempting
<1>13. CASE ClearDone
  BY <1>13 DEF ClearDone, Goto, ControlInv, TypeOK, Steps, Attempting
<1>14. CASE SetCount
  BY <1>14 DEF SetCount, Goto, ControlInv, TypeOK, Steps, Attempting
<1>15. CASE Step12
  <2>1. /\ pc' \in Steps /\ attempt' \in 0 .. Retries /\ polls' \in 0 .. Timeout
        /\ status' \in {"SUCCESS", "TMO"} /\ result' \in {"SUCCESS", "ERROR"}
    BY <1>15 DEF Step12, Poll, Settle, Finish, Return, ControlInv, TypeOK, Steps, Attempting
  <2>2. UNCHANGED <<opened, remaining, ctrl_reg, data_status, runs, Registers, Fabric, dclk>>
    BY <1>15 DEF Step12, Poll, Settle, Finish
  <2>3. dcntdone' \in BOOLEAN
    BY <1>15 DEF Step12
  <2> QED
    BY <2>1, <2>2, <2>3 DEF TypeOK
<1>16. CASE Step13
  BY <1>16 DEF Step13, Poll, Finish, Return, ControlInv, TypeOK, Steps, Attempting
<1>17. CASE Disable
  <2>1. ctrl' \in Control /\ ctrl_reg' \in Control
    BY <1>17 DEF Disable, TypeOK, Control
  <2> QED
    BY <1>17, <2>1 DEF Disable, Goto, ControlInv, TypeOK, Steps, Attempting
<1>18. CASE Device
  <2>1. CASE EnterReset /\ UNCHANGED Dclk
    BY <1>18, <2>1 DEF Device, EnterReset, TypeOK
  <2>2. CASE EnterCfg /\ UNCHANGED Dclk
    BY <1>18, <2>2 DEF Device, EnterCfg, TypeOK
  <2>3. CASE Accept /\ UNCHANGED Dclk
    BY <1>18, <2>3 DEF Device, Accept, TypeOK
  <2>4. CASE Reject /\ UNCHANGED Dclk
    BY <1>18, <2>4 DEF Device, Reject, TypeOK
  <2>5. CASE EnterUser /\ UNCHANGED Dclk
    BY <1>18, <2>5 DEF Device, EnterUser, TypeOK
  <2>6. CASE DclkEnds
    BY <1>18, <2>6 DEF Device, DclkEnds, TypeOK
  <2> QED
    BY <1>18, <2>1, <2>2, <2>3, <2>4, <2>5, <2>6 DEF Device
<1>19. CASE Restart
  <2>1. /\ attempt' \in 0 .. Retries /\ remaining' \in 0 .. ImageBytes
        /\ polls' \in 0 .. Timeout /\ runs' \in 1 .. MaxRuns
    BY <1>19 DEF Restart, TypeOK
  <2>2. /\ pc' \in Steps /\ opened' \in BOOLEAN /\ status' \in {"SUCCESS", "TMO"}
        /\ data_status' \in {"SUCCESS", "CFG", "CRC"} /\ result' \in {"SUCCESS", "ERROR"}
    BY <1>19 DEF Restart, Steps
  <2> QED
    BY <1>19, <2>1, <2>2 DEF Restart, TypeOK
<1>20. CASE UNCHANGED vars
  BY <1>20 DEF vars, TypeOK
<1> QED
  BY <1>1, <1>2, <1>3, <1>4, <1>5, <1>6, <1>7, <1>8, <1>9, <1>10, <1>11, <1>12, <1>13, <1>14, <1>15, <1>16, <1>17, <1>18, <1>19, <1>20 DEF Next, Program

\* Every step keeps what is known of the control register.
LEMMA ControlStep == TypeOK /\ ControlInv /\ [Next]_vars => ControlInv'
<1> SUFFICES ASSUME TypeOK, ControlInv, [Next]_vars PROVE ControlInv'
  OBVIOUS
<1> USE ConfigAssumption DEF Locals, Registers, Fabric, Dclk, TypeOK, ControlInv, Attempting, Loading, Control
<1>1. CASE Enable
  BY <1>1 DEF Enable, Goto
<1>2. CASE CheckMsel
  BY <1>2 DEF CheckMsel
<1>3. CASE OpenImage
  BY <1>3 DEF OpenImage
<1>4. CASE Configure
  <2>1. CASE ~ctrl.en \/ ~powered
    BY <1>4, <2>1 DEF Configure, Step1Control, Return
  <2>2. CASE ctrl.en /\ powered
    <3>1. /\ ctrl' = [ctrl EXCEPT !.cdratio = 8, !.width = Width[msel], !.nce = FALSE]
          /\ ctrl_reg' = ctrl' /\ pc' = "step3"
          /\ UNCHANGED <<attempt, runs, msel, powered>>
      BY <1>4, <2>2 DEF Configure, Step1Control, WriteControl
    <3>2. /\ ctrl'.width = Width[msel] /\ ctrl'.cdratio = 8 /\ ~ctrl'.nce
          /\ ctrl'.en = ctrl.en /\ ctrl'.ncfgpull = ctrl.ncfgpull
          /\ ctrl'.axicfgen = ctrl.axicfgen
      BY <3>1
    <3>3. pc = "configure"
      BY <1>4 DEF Configure, Step1Control
    <3> QED
      BY <2>2, <3>1, <3>2, <3>3
  <2> QED
    BY <2>1, <2>2
<1>5. CASE Step3
  BY <1>5 DEF Step3, Goto, WriteControl
<1>6. CASE Step4
  BY <1>6 DEF Step4, Poll, Settle
<1>7. CASE Step5
  BY <1>7 DEF Step5, WriteControl, Return
<1>8. CASE Step6
  BY <1>8 DEF Step6, Poll, Settle, Finish, Return
<1>9. CASE Step8
  BY <1>9 DEF Step8, Goto, WriteControl
<1>10. CASE Step9
  BY <1>10 DEF Step9, Chunk
<1>11. CASE Step10
  BY <1>11 DEF Step10, Poll, SettleData
<1>12. CASE Step11
  BY <1>12 DEF Step11, Goto, WriteControl
<1>13. CASE ClearDone
  BY <1>13 DEF ClearDone, Goto
<1>14. CASE SetCount
  BY <1>14 DEF SetCount, Goto
<1>15. CASE Step12
  BY <1>15 DEF Step12, Poll, Settle, Finish, Return
<1>16. CASE Step13
  BY <1>16 DEF Step13, Poll, Finish, Return
<1>17. CASE Disable
  BY <1>17 DEF Disable, Goto
<1>18. CASE Device
  <2>1. CASE EnterReset /\ UNCHANGED Dclk
    BY <1>18, <2>1 DEF Device, EnterReset
  <2>2. CASE EnterCfg /\ UNCHANGED Dclk
    BY <1>18, <2>2 DEF Device, EnterCfg
  <2>3. CASE Accept /\ UNCHANGED Dclk
    BY <1>18, <2>3 DEF Device, Accept
  <2>4. CASE Reject /\ UNCHANGED Dclk
    BY <1>18, <2>4 DEF Device, Reject
  <2>5. CASE EnterUser /\ UNCHANGED Dclk
    BY <1>18, <2>5 DEF Device, EnterUser
  <2>6. CASE DclkEnds
    BY <1>18, <2>6 DEF Device, DclkEnds
  <2> QED
    BY <1>18, <2>1, <2>2, <2>3, <2>4, <2>5, <2>6 DEF Device
<1>19. CASE Restart
  BY <1>19 DEF Restart
<1>20. CASE UNCHANGED vars
  BY <1>20 DEF vars
<1> QED
  BY <1>1, <1>2, <1>3, <1>4, <1>5, <1>6, <1>7, <1>8, <1>9, <1>10, <1>11, <1>12, <1>13, <1>14, <1>15, <1>16, <1>17, <1>18, <1>19, <1>20 DEF Next, Program

\* Every step keeps what is known of the FPGA.
LEMMA FabricStep == TypeOK /\ ControlInv /\ FabricInv /\ [Next]_vars => FabricInv'
<1> SUFFICES ASSUME TypeOK, ControlInv, FabricInv, [Next]_vars PROVE FabricInv'
  OBVIOUS
<1> USE ConfigAssumption DEF Locals, Registers, Fabric, Dclk, TypeOK, ControlInv, FabricInv, Attempting, Loading, Words
<1>1. CASE Enable
  BY <1>1 DEF Enable, Goto
<1>2. CASE CheckMsel
  BY <1>2 DEF CheckMsel
<1>3. CASE OpenImage
  BY <1>3 DEF OpenImage
<1>4. CASE Configure
  BY <1>4 DEF Configure, Step1Control, WriteControl, Return
<1>5. CASE Step3
  BY <1>5 DEF Step3, Goto, WriteControl
<1>6. CASE Step4
  BY <1>6 DEF Step4, Poll, Settle
<1>7. CASE Step5
  BY <1>7 DEF Step5, WriteControl, Return
<1>8. CASE Step6
  BY <1>8 DEF Step6, Poll, Settle, Finish, Return
<1>9. CASE Step8
  BY <1>9 DEF Step8, Goto, WriteControl
<1>10. CASE Step9
  <2>1. CASE remaining = 0
    BY <1>10, <2>1 DEF Step9, Chunk
  <2>2. CASE remaining > 0
    <3>1. PortOpen
      BY <1>10, <2>2 DEF Step9, PortOpen
    <3>2. /\ pc = "step9" /\ pc' = "step9" /\ UNCHANGED <<mode, conf_done>>
          /\ remaining' = remaining - Chunk /\ loaded' = loaded + Words(Chunk)
      BY <1>10, <2>2, <3>1 DEF Step9, Chunk
    <3>3. CASE ChunkBytes < remaining
      <4>1. Chunk = ChunkBytes /\ 4 * Words(Chunk) = Chunk
        BY <3>3 DEF Chunk
      <4>2. remaining' > 0 /\ 4 * loaded' + remaining' = ImageBytes
        BY <2>2, <3>2, <3>3, <4>1
      <4> QED
        BY <2>2, <3>2, <4>2
    <3>4. CASE ~(ChunkBytes < remaining)
      <4>1. Chunk = remaining
        BY <3>4 DEF Chunk
      <4>2. remaining' = 0 /\ loaded' = Words(ImageBytes)
        BY <2>2, <3>2, <4>1
      <4> QED
        BY <2>2, <3>2, <4>2
    <3> QED
      BY <3>3, <3>4
  <2> QED
    BY <2>1, <2>2
<1>11. CASE Step10
  BY <1>11 DEF Step10, Poll, SettleData
<1>12. CASE Step11
  BY <1>12 DEF Step11, Goto, WriteControl
<1>13. CASE ClearDone
  BY <1>13 DEF ClearDone, Goto
<1>14. CASE SetCount
  BY <1>14 DEF SetCount, Goto
<1>15. CASE Step12
  BY <1>15 DEF Step12, Poll, Settle, Finish, Return
<1>16. CASE Step13
  BY <1>16 DEF Step13, Poll, Finish, Return
<1>17. CASE Disable
  BY <1>17 DEF Disable, Goto
<1>18. CASE Device
  <2>1. CASE EnterReset /\ UNCHANGED Dclk
    BY <1>18, <2>1 DEF Device, EnterReset
  <2>2. CASE EnterCfg /\ UNCHANGED Dclk
    BY <1>18, <2>2 DEF Device, EnterCfg
  <2>3. CASE Accept /\ UNCHANGED Dclk
    BY <1>18, <2>3 DEF Device, Accept
  <2>4. CASE Reject /\ UNCHANGED Dclk
    BY <1>18, <2>4 DEF Device, Reject
  <2>5. CASE EnterUser /\ UNCHANGED Dclk
    BY <1>18, <2>5 DEF Device, EnterUser
  <2>6. CASE DclkEnds
    BY <1>18, <2>6 DEF Device, DclkEnds
  <2> QED
    BY <1>18, <2>1, <2>2, <2>3, <2>4, <2>5, <2>6 DEF Device
<1>19. CASE Restart
  BY <1>19 DEF Restart
<1>20. CASE UNCHANGED vars
  BY <1>20 DEF vars
<1> QED
  BY <1>1, <1>2, <1>3, <1>4, <1>5, <1>6, <1>7, <1>8, <1>9, <1>10, <1>11, <1>12, <1>13, <1>14, <1>15, <1>16, <1>17, <1>18, <1>19, <1>20 DEF Next, Program

\* IInv is inductive.
LEMMA Inductive == Spec => []IInv
<1>1. Init => IInv
  <2> SUFFICES ASSUME Init PROVE IInv
    OBVIOUS
  <2>1. TypeOK
    BY TypeInit
  <2>2. ControlInv
    BY ConfigAssumption, <2>1
    DEF Init, ControlInv, Attempting, Loading, Control, TypeOK
  <2>3. FabricInv
    BY <2>1 DEF Init, FabricInv, Loading, TypeOK
  <2> QED
    BY <2>1, <2>2, <2>3 DEF IInv
<1>2. IInv /\ [Next]_vars => IInv'
  BY TypeStep, ControlStep, FabricStep DEF IInv
<1> QED
  BY <1>1, <1>2, PTL DEF Spec

----------------------------------------------------------------------------
\* Every variable of the program and of the FPGA keeps to its type; among others
\* the retry loop makes at most full_config_retry attempts.
THEOREM TypeCorrect == Spec => []TypeOK
<1>1. IInv => TypeOK
  BY DEF IInv
<1> QED
  BY <1>1, Inductive, PTL

\* No path through the attempts leaves the FPGA in reset, and no path of a first
\* run leaves its data port open.
THEOREM ReleasesFpga == Spec => []Released
<1>1. IInv => Released
  BY DEF IInv, ControlInv, Released, Attempting
<1> QED
  BY <1>1, Inductive, PTL

\* No chunk of the image is written to a port the FPGA does not listen to.
THEOREM Streams == Spec => []StreamsToOpenPort
<1>1. IInv => StreamsToOpenPort
  BY DEF IInv, ControlInv, FabricInv, StreamsToOpenPort, PortOpen, Attempting, Loading
<1> QED
  BY <1>1, Inductive, PTL

\* An attempt that succeeds has put the whole image of this attempt in the FPGA.
THEOREM Success == Spec => []SuccessIsConfigured
<1>1. IInv => SuccessIsConfigured
  BY DEF IInv, FabricInv, SuccessIsConfigured
<1> QED
  BY <1>1, Inductive, PTL

=============================================================================
