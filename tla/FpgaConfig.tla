----------------------------- MODULE FpgaConfig -----------------------------
(***************************************************************************)
(* The program that configures the FPGA from the processor                 *)
(* (hsp_config_fpga.c), through the registers of the FPGA manager.  The    *)
(* program's actions follow the numbered steps of                          *)
(* alt_fpga_istream_configure, every access that another party can notice  *)
(* a step of its own; the FPGA moves between them.  The program may be     *)
(* killed anywhere and run again.                                          *)
(***************************************************************************)
EXTENDS Naturals

CONSTANTS
  Retries,      \* full_config_retry
  Timeout,      \* _ALT_FPGA_TMO_*: polls made after the first
  ImageBytes,   \* fpga_image_size
  ChunkBytes,   \* ISTREAM_CHUNK_SIZE
  MaxRuns       \* bound on the runs of the program

ASSUME ConfigAssumption ==
  /\ Retries \in Nat \ {0}
  /\ Timeout \in Nat
  /\ ImageBytes \in Nat
  /\ ChunkBytes \in Nat \ {0} /\ ChunkBytes % 4 = 0
  /\ MaxRuns \in Nat \ {0}

\* The program.
VARIABLES
  pc,           \* the program's next step
  attempt,      \* i: attempts made by test_config_full
  opened,       \* the image file could be opened
  remaining,    \* data->length: bytes the stream has still to deliver
  polls,        \* timeout: polls left in the wait
  ctrl_reg,     \* the cache of CTRL
  status,       \* of the last wait
  data_status,  \* of steps 9 and 10
  result,       \* what test_config_full returned to main
  runs          \* runs of the program so far

\* The FPGA manager's registers and the FPGA behind them.
VARIABLES
  ctrl,         \* CTRL
  msel,         \* STAT.MSEL, set by switches
  powered,      \* the monitor's POWER_ON
  mode,         \* STAT.MODE
  conf_done, nstatus, crc_error,   \* the monitor's bits
  dclk,         \* a DCLK count is running
  dcntdone,     \* DCLKSTAT
  loaded        \* words of the image taken since the last reset

Registers == <<ctrl, msel, powered>>
Fabric == <<mode, conf_done, nstatus, crc_error, loaded>>
Dclk == <<dclk, dcntdone>>
Locals == <<attempt, opened, remaining, ctrl_reg, status, data_status, result, runs>>
vars == <<pc, polls, Locals, Registers, Fabric, Dclk>>

\* The two modes of the data bus this image can be loaded in, and their widths.
Width == [PP16_AESOPT_DC |-> 16, PP32_AESOPT_DC |-> 32]
Modes == DOMAIN Width \cup {"OTHER"}

Control == [en : BOOLEAN, ncfgpull : BOOLEAN, axicfgen : BOOLEAN, nce : BOOLEAN,
            width : {16, 32}, cdratio : {1, 8}]

\* The steps of an attempt after CTRL was read into the cache.
Attempting ==
  {"step3", "step4", "step5", "step6", "step8", "step9", "step10", "step11",
   "clear_done", "set_count", "step12", "step13"}

Steps == Attempting \cup {"enable", "msel", "open", "configure", "disable", "exit"}

Words(bytes) == (bytes + 3) \div 4

TypeOK ==
  /\ pc \in Steps
  /\ attempt \in 0 .. Retries
  /\ opened \in BOOLEAN
  /\ remaining \in 0 .. ImageBytes
  /\ polls \in 0 .. Timeout
  /\ ctrl_reg \in Control
  /\ status \in {"SUCCESS", "TMO"}
  /\ data_status \in {"SUCCESS", "CFG", "CRC"}
  /\ result \in {"SUCCESS", "ERROR"}
  /\ runs \in 1 .. MaxRuns
  /\ ctrl \in Control
  /\ msel \in Modes
  /\ powered \in BOOLEAN
  /\ mode \in {"RESET", "CFG", "INIT", "USER_MODE"}
  /\ conf_done \in BOOLEAN
  /\ nstatus \in BOOLEAN
  /\ crc_error \in BOOLEAN
  /\ dclk \in BOOLEAN
  /\ dcntdone \in BOOLEAN
  /\ loaded \in Nat

\* The FPGA is as the boot left it: configured by something else, or not at all.
Init ==
  /\ pc = "enable"
  /\ attempt = 0
  /\ opened = FALSE
  /\ remaining = 0
  /\ polls = 0
  /\ ctrl \in {c \in Control : ~c.en /\ ~c.ncfgpull /\ ~c.axicfgen}
  /\ ctrl_reg = ctrl
  /\ status = "SUCCESS"
  /\ data_status = "SUCCESS"
  /\ result = "SUCCESS"
  /\ runs = 1
  /\ msel \in Modes
  /\ powered \in BOOLEAN
  /\ mode \in {"CFG", "USER_MODE"}
  /\ conf_done = (mode = "USER_MODE")
  /\ nstatus = TRUE
  /\ crc_error = FALSE
  /\ dclk = FALSE
  /\ dcntdone = FALSE
  /\ loaded = 0

----------------------------------------------------------------------------
\* main and test_config_full

Goto(from, to) == pc = from /\ pc' = to

\* alt_fpga_control_enable, before anything else
Enable ==
  /\ Goto("enable", "msel")
  /\ ctrl' = [ctrl EXCEPT !.en = TRUE]
  /\ UNCHANGED <<polls, Locals, msel, powered, Fabric, Dclk>>

CheckMsel ==
  /\ pc = "msel"
  /\ \/ msel \in DOMAIN Width /\ pc' = "open" /\ UNCHANGED result
     \/ msel \notin DOMAIN Width /\ pc' = "disable" /\ result' = "ERROR"
  /\ UNCHANGED <<polls, attempt, opened, remaining, ctrl_reg, status, data_status, runs,
                 Registers, Fabric, Dclk>>

\* When the file does not open, the function returns false, which is ALT_E_SUCCESS.
OpenImage ==
  /\ pc = "open"
  /\ \/ opened' = TRUE /\ pc' = "configure" /\ UNCHANGED result
     \/ opened' = FALSE /\ pc' = "disable" /\ result' = "SUCCESS"
  /\ attempt' = 0
  /\ UNCHANGED <<polls, remaining, ctrl_reg, status, data_status, runs,
                 Registers, Fabric, Dclk>>

\* A fault for TypeOK: the attempts are not counted.
ReturnToRetry(successful) ==
  /\ attempt' = attempt + 1
  /\ pc' = IF successful THEN "disable" ELSE "configure"
  /\ result' = IF successful THEN "SUCCESS" ELSE "ERROR"

\* alt_fpga_configure returns to the retry loop.
Return(successful) ==
  /\ attempt' = attempt + 1
  /\ pc' = IF successful \/ attempt' = Retries THEN "disable" ELSE "configure"
  /\ result' = IF successful THEN "SUCCESS" ELSE IF attempt' = Retries THEN "ERROR" ELSE result

Disable ==
  /\ Goto("disable", "exit")
  /\ ctrl' = [ctrl EXCEPT !.en = FALSE]
  /\ UNCHANGED <<polls, Locals, msel, powered, Fabric, Dclk>>

----------------------------------------------------------------------------
\* alt_fpga_istream_configure

\* The whole of CTRL is written from the cache.
WriteControl(c) == ctrl_reg' = c /\ ctrl' = c /\ UNCHANGED <<msel, powered>>

\* A fault for StreamsToOpenPort: step 1 starts from the cache of an earlier attempt.
Step1ControlStale ==
  [ctrl_reg EXCEPT !.cdratio = 8, !.width = Width[msel], !.nce = FALSE]

\* What step 1 writes: CTRL as it is read now, set for the image's mode.
Step1Control == [ctrl EXCEPT !.cdratio = 8, !.width = Width[msel], !.nce = FALSE]

\* The preconditions, and step 1.
Configure ==
  /\ pc = "configure"
  /\ \/ /\ ~ctrl.en \/ ~powered
        /\ Return(FALSE)
        /\ UNCHANGED <<remaining, ctrl_reg, Registers>>
     \/ /\ ctrl.en /\ powered
        /\ WriteControl(Step1Control)
        /\ remaining' = ImageBytes
        /\ pc' = "step3"
        /\ UNCHANGED <<attempt, result>>
  /\ UNCHANGED <<polls, opened, status, data_status, runs, Fabric, Dclk>>

Step3 ==
  /\ Goto("step3", "step4")
  /\ WriteControl([ctrl_reg EXCEPT !.ncfgpull = TRUE])
  /\ polls' = Timeout
  /\ UNCHANGED <<attempt, opened, remaining, status, data_status, result, runs, Fabric, Dclk>>

\* A fault for Ends: a wait does not give up.
PollForever(seen, next, failed) ==
  /\ \/ seen /\ next
     \/ ~seen /\ UNCHANGED <<pc, polls, Locals>>
  /\ UNCHANGED <<Registers, Fabric>>

\* do ... while (timeout--): a wait for something polls once more than its timeout.
Poll(seen, next, failed) ==
  /\ \/ seen /\ next
     \/ ~seen /\ polls = 0 /\ failed /\ UNCHANGED polls
     \/ ~seen /\ polls > 0 /\ polls' = polls - 1 /\ UNCHANGED <<pc, Locals>>
  /\ UNCHANGED <<Registers, Fabric>>

Settle(s, to) ==
  /\ status' = s /\ pc' = to
  /\ UNCHANGED <<attempt, opened, remaining, ctrl_reg, data_status, result, runs>>

\* An attempt ends with a wait that timed out or with its last wait.
Finish(s, successful) ==
  /\ status' = s /\ Return(successful)
  /\ UNCHANGED <<opened, remaining, ctrl_reg, data_status, runs>>

\* A fault for SuccessIsConfigured: the FPGA is taken to be reset at once.
Step4Unwaited ==
  /\ pc = "step4"
  /\ Settle("SUCCESS", "step5")
  /\ UNCHANGED <<polls, Registers, Fabric, Dclk>>

Step4 ==
  /\ pc = "step4"
  /\ Poll(mode = "RESET", Settle("SUCCESS", "step5") /\ UNCHANGED polls, Settle("TMO", "step5"))
  /\ UNCHANGED Dclk

\* A fault for Released: a failure of step 4 returns with the reset asserted.
Step5FailsFirst ==
  /\ pc = "step5"
  /\ polls' = Timeout
  /\ \/ /\ status = "SUCCESS" /\ pc' = "step6"
        /\ WriteControl([ctrl_reg EXCEPT !.ncfgpull = FALSE])
        /\ UNCHANGED <<attempt, result>>
     \/ status # "SUCCESS" /\ Return(FALSE) /\ UNCHANGED <<ctrl_reg, Registers>>
  /\ UNCHANGED <<opened, remaining, status, data_status, runs, Fabric, Dclk>>

\* The reset is released before a failure of step 4 is looked at.
Step5 ==
  /\ pc = "step5"
  /\ WriteControl([ctrl_reg EXCEPT !.ncfgpull = FALSE])
  /\ polls' = Timeout
  /\ \/ status = "SUCCESS" /\ pc' = "step6" /\ UNCHANGED <<attempt, result>>
     \/ status # "SUCCESS" /\ Return(FALSE)
  /\ UNCHANGED <<opened, remaining, status, data_status, runs, Fabric, Dclk>>

Step6 ==
  /\ pc = "step6"
  /\ Poll(mode = "CFG", Settle("SUCCESS", "step8") /\ UNCHANGED polls, Finish("TMO", FALSE))
  /\ UNCHANGED Dclk

\* Step 7 acknowledges an interrupt that nothing here waits for.
Step8 ==
  /\ Goto("step8", "step9")
  /\ WriteControl([ctrl_reg EXCEPT !.axicfgen = TRUE])
  /\ UNCHANGED <<polls, attempt, opened, remaining, status, data_status, result, runs,
                 Fabric, Dclk>>

\* The FPGA takes the words written while the data port is open to it.
PortOpen ==
  /\ ctrl.en /\ ctrl.axicfgen /\ ~ctrl.ncfgpull /\ ~ctrl.nce
  /\ msel \in DOMAIN Width /\ ctrl.width = Width[msel] /\ ctrl.cdratio = 8
  /\ mode = "CFG"

\* One chunk from istream_callback, the last word of it padded; none ends the step.
Chunk == IF ChunkBytes < remaining THEN ChunkBytes ELSE remaining

Step9 ==
  /\ pc = "step9"
  /\ remaining' = remaining - Chunk
  /\ loaded' = IF PortOpen THEN loaded + Words(Chunk) ELSE loaded
  /\ \/ Chunk > 0 /\ UNCHANGED <<pc, polls>>
     \/ Chunk = 0 /\ pc' = "step10" /\ polls' = Timeout
  /\ UNCHANGED <<attempt, opened, ctrl_reg, status, data_status, result, runs, Registers,
                 mode, conf_done, nstatus, crc_error, Dclk>>

\* wait_for_config_done: both bits set is success, neither a failure.
Decided == crc_error \/ conf_done = nstatus

SettleData(s) ==
  /\ data_status' = s /\ pc' = "step11"
  /\ UNCHANGED <<attempt, opened, remaining, ctrl_reg, status, result, runs>>

Step10 ==
  /\ pc = "step10"
  /\ Poll(Decided,
          /\ SettleData(IF crc_error THEN "CRC" ELSE IF conf_done THEN "SUCCESS" ELSE "CFG")
          /\ UNCHANGED polls,
          SettleData("CFG"))
  /\ UNCHANGED Dclk

Step11 ==
  /\ Goto("step11", "clear_done")
  /\ WriteControl([ctrl_reg EXCEPT !.axicfgen = FALSE])
  /\ UNCHANGED <<polls, attempt, opened, remaining, status, data_status, result, runs,
                 Fabric, Dclk>>

\* dclk_set_and_wait_clear: a DONE left by an earlier count is cleared, ...
ClearDone ==
  /\ Goto("clear_done", "set_count")
  /\ dcntdone' = FALSE
  /\ UNCHANGED <<polls, Locals, Registers, Fabric, dclk>>

\* ... the count written, ...
SetCount ==
  /\ Goto("set_count", "step12")
  /\ dclk' = TRUE
  /\ polls' = Timeout
  /\ UNCHANGED <<Locals, Registers, Fabric, dcntdone>>

\* ... and DONE waited for and cleared.
Step12 ==
  /\ pc = "step12"
  /\ Poll(dcntdone, Settle("SUCCESS", "step13") /\ polls' = Timeout, Finish("TMO", FALSE))
  /\ dcntdone' = FALSE
  /\ UNCHANGED dclk

Step13 ==
  /\ pc = "step13"
  /\ Poll(mode = "USER_MODE",
          Finish("SUCCESS", data_status = "SUCCESS") /\ UNCHANGED polls,
          Finish("TMO", FALSE))
  /\ UNCHANGED Dclk

----------------------------------------------------------------------------
\* The FPGA, as the steps above expect it to behave.

EnterReset ==
  /\ ctrl.en /\ ctrl.ncfgpull /\ mode # "RESET"
  /\ mode' = "RESET"
  /\ conf_done' = FALSE /\ nstatus' = FALSE /\ crc_error' = FALSE
  /\ loaded' = 0

EnterCfg ==
  /\ mode = "RESET" /\ ~(ctrl.en /\ ctrl.ncfgpull)
  /\ mode' = "CFG" /\ nstatus' = TRUE
  /\ UNCHANGED <<conf_done, crc_error, loaded>>

Accept ==
  /\ mode = "CFG" /\ nstatus /\ ~crc_error /\ loaded = Words(ImageBytes) /\ loaded > 0
  /\ conf_done' = TRUE
  /\ UNCHANGED <<mode, nstatus, crc_error, loaded>>

Reject ==
  /\ mode = "CFG" /\ nstatus /\ ~conf_done /\ loaded > 0
  /\ nstatus' = FALSE /\ crc_error' \in BOOLEAN
  /\ UNCHANGED <<mode, conf_done, loaded>>

EnterUser ==
  /\ mode = "INIT"
  /\ mode' = "USER_MODE"
  /\ UNCHANGED <<conf_done, nstatus, crc_error, loaded>>

\* A count ends; the clocks take an accepted image into initialisation.
DclkEnds ==
  /\ dclk
  /\ dclk' = FALSE /\ dcntdone' = TRUE
  /\ mode' = IF mode = "CFG" /\ conf_done THEN "INIT" ELSE mode
  /\ UNCHANGED <<conf_done, nstatus, crc_error, loaded>>

Device ==
  /\ powered
  /\ DclkEnds \/ ((EnterReset \/ EnterCfg \/ Accept \/ Reject \/ EnterUser) /\ UNCHANGED Dclk)
  /\ UNCHANGED <<pc, polls, Locals, Registers>>

----------------------------------------------------------------------------
\* The program is killed, or has ended, and is run again.
Restart ==
  /\ pc # "enable" /\ pc' = "enable"
  /\ runs < MaxRuns /\ runs' = runs + 1
  /\ attempt' = 0 /\ opened' = FALSE
  /\ remaining' = 0 /\ polls' = 0
  /\ status' = "SUCCESS" /\ data_status' = "SUCCESS" /\ result' = "SUCCESS"
  /\ UNCHANGED <<ctrl_reg, Registers, Fabric, Dclk>>

Program ==
  \/ Enable \/ CheckMsel \/ OpenImage \/ Configure
  \/ Step3 \/ Step4 \/ Step5 \/ Step6 \/ Step8 \/ Step9 \/ Step10 \/ Step11
  \/ ClearDone \/ SetCount \/ Step12 \/ Step13
  \/ Disable

Next == Program \/ Device \/ Restart

\* The operating system lets the program go on; the FPGA owes nothing.
Spec == Init /\ [][Next]_vars /\ WF_vars(Program)

----------------------------------------------------------------------------
\* The FPGA is never left in reset: whenever no attempt is running the reset is
\* released, on every path out of an attempt, unless the program was killed.  A
\* first run never leaves the data port open, nor opens it on an FPGA in reset.
Released ==
  /\ pc \in {"disable", "exit"} /\ attempt > 0 /\ powered => ~ctrl.ncfgpull
  /\ runs = 1 /\ pc \notin Attempting => ~ctrl.ncfgpull /\ ~ctrl.axicfgen
  /\ runs = 1 => ~(ctrl.ncfgpull /\ ctrl.axicfgen)

\* An image that was opened and reported configured is whole in the FPGA, and the
\* FPGA runs it: nothing seen by an earlier attempt or left by a killed run is
\* taken for this attempt's success.  (One that cannot be opened is reported so too:
\* test_config_full returns false then, which is the value of ALT_E_SUCCESS.)
SuccessIsConfigured ==
  opened /\ pc \in {"disable", "exit"} /\ result = "SUCCESS" =>
    mode = "USER_MODE" /\ conf_done /\ loaded = Words(ImageBytes)

\* Every chunk is written to an open port: controlled by the processor, in the
\* image's mode, out of reset and in the configuration phase, even while a DCLK
\* count that an earlier attempt gave up on is still running.
StreamsToOpenPort == pc = "step9" /\ remaining > 0 => PortOpen

\* Whatever the FPGA does, the program ends, and leaves the FPGA control block.
Ends == <>[](pc = "exit" /\ ~ctrl.en)

=============================================================================
