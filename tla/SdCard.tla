-------------------------------- MODULE SdCard ---------------------------------
(***************************************************************************)
(* The SD card, io/sdcard/src/sdcard.c: commands of six bytes, answers that *)
(* are fetched a byte at a time, and blocks that are read from an image.    *)
(***************************************************************************)
EXTENDS Integers, Sequences

CONSTANTS
  SectorSize,       \* 512 in the code
  Image             \* external: the blocks of the image file

ASSUME SdCardAssumption ==
  /\ SectorSize \in Nat \ {0}
  /\ \A b \in DOMAIN Image : Len(Image[b]) = SectorSize

CMD0 == 64     CMD8 == 72     CMD17 == 81     CMD55 == 119     ACMD41 == 105

VARIABLES
  init,                     \* the image has been opened
  card_state, cmd_state,
  cmd_buf,                  \* the bytes of a command so far
  rsp_buf,                  \* what is left of rsp_buf
  out_reg,
  acmd_pend, acmd41_cnt,
  sector_buf, block_cnt

card == <<init, card_state, cmd_state, cmd_buf, rsp_buf, out_reg,
          acmd_pend, acmd41_cnt, sector_buf, block_cnt>>

-----------------------------------------------------------------------------
Block(cmd) == ((cmd[2] * 256 + cmd[3]) * 256 + cmd[4]) * 256 + cmd[5]

(* lseek and read, either of which may fail (a seek that fails does not     *)
(* keep it from reading); a block past the end leaves sector_buf.          *)
Sector(b) == IF b \in DOMAIN Image THEN Image[b] ELSE sector_buf

Answer(state, byte) == cmd_state' = state /\ out_reg' = byte

(* handle_cmd, by the state of the card.  A command that the card does not  *)
(* know once it is initialised has no answer, and the card then awaits the  *)
(* next one without looking for a start bit.                               *)
CmdSdMode(cmd) ==
  /\ card_state = "SD_MODE"
  /\ card_state' = IF cmd[1] = CMD0 THEN "INIT" ELSE "SD_MODE"
  /\ Answer("R1", 1)
  /\ UNCHANGED <<rsp_buf, acmd_pend, sector_buf>>

CmdInit(cmd) ==
  /\ card_state = "INIT"
  /\ \/ /\ cmd[1] = CMD8
        /\ Answer("R7", out_reg) /\ rsp_buf' = SubSeq(cmd, 2, 5)
        /\ UNCHANGED acmd_pend
     \/ /\ cmd[1] = CMD55
        /\ Answer("R1", 1) /\ acmd_pend' = TRUE
        /\ UNCHANGED rsp_buf
     \/ cmd[1] \notin {CMD8, CMD55} /\ Answer("CMD", out_reg) /\ UNCHANGED <<rsp_buf, acmd_pend>>
  /\ UNCHANGED <<card_state, sector_buf>>

CmdReady(cmd) ==
  /\ card_state = "READY"
  /\ \/ /\ cmd[1] = CMD17
        /\ \/ Answer("R1_DATA", 0) /\ sector_buf' = Sector(Block(cmd))
           \/ Answer("R1", 32) /\ sector_buf' \in {sector_buf} \cup {Image[b] : b \in DOMAIN Image}
     \/ cmd[1] # CMD17 /\ Answer("CMD", out_reg) /\ UNCHANGED sector_buf
  /\ UNCHANGED <<card_state, rsp_buf, acmd_pend>>

(* handle_acmd: the sixth ACMD41 makes the card ready.                      *)
Acmd(cmd) ==
  /\ acmd_pend' = FALSE
  /\ \/ /\ card_state = "INIT" /\ cmd[1] = ACMD41
        /\ acmd41_cnt' = acmd41_cnt + 1
        /\ IF acmd41_cnt' = 6 THEN card_state' = "READY" /\ Answer("R1", 0)
                              ELSE UNCHANGED card_state /\ Answer("R1", 1)
     \/ /\ card_state = "INIT" /\ cmd[1] # ACMD41
        /\ Answer("CMD", out_reg) /\ UNCHANGED <<card_state, acmd41_cnt>>
     \/ /\ card_state # "INIT"
        /\ Answer("R1", 64) /\ UNCHANGED <<card_state, acmd41_cnt>>
  /\ UNCHANGED <<rsp_buf, sector_buf>>

Command(cmd) ==
  \/ acmd_pend /\ Acmd(cmd)
  \/ /\ ~acmd_pend /\ UNCHANGED acmd41_cnt
     /\ CmdSdMode(cmd) \/ CmdInit(cmd) \/ CmdReady(cmd)

(* sdcard_spi_write: a byte without a start bit, or while an answer is      *)
(* being fetched, is ignored.                                              *)
Takes(byte) == init /\ (cmd_state = "CMD" \/ (cmd_state = "IDLE" /\ byte < 128))

sdcard_spi_write(byte) ==
  \/ ~Takes(byte) /\ UNCHANGED card
  \/ /\ Takes(byte)
     /\ LET cmd == Append(cmd_buf, byte)
        IN IF Len(cmd) < 6
           THEN /\ cmd_buf' = cmd /\ cmd_state' = "CMD"
                /\ UNCHANGED <<card_state, rsp_buf, out_reg, acmd_pend, acmd41_cnt, sector_buf>>
           ELSE cmd_buf' = <<>> /\ Command(cmd)
     /\ UNCHANGED <<init, block_cnt>>

(* sdcard_spi_get returns out_reg, and puts the next byte there.            *)
\* (a mutant: a block ends a byte early)
BlockEndsEarly == block_cnt + 1 >= SectorSize - 1

BlockEnds == block_cnt + 1 = SectorSize

Fetch ==
  CASE cmd_state = "R7" ->
         IF rsp_buf = <<>> THEN Answer("IDLE", 255) /\ UNCHANGED <<rsp_buf, block_cnt>>
         ELSE /\ Answer("R7", Head(rsp_buf)) /\ rsp_buf' = Tail(rsp_buf)
              /\ UNCHANGED block_cnt
    [] cmd_state = "R1_DATA" -> Answer("DATA_START_TOKEN", 255) /\ UNCHANGED <<rsp_buf, block_cnt>>
    [] cmd_state = "DATA_START_TOKEN" ->
         Answer("DATA", 254) /\ block_cnt' = 0 /\ UNCHANGED rsp_buf
    [] cmd_state = "DATA" ->
         /\ Answer(IF BlockEnds THEN "CRC1" ELSE "DATA", sector_buf[block_cnt + 1])
         /\ block_cnt' = block_cnt + 1 /\ UNCHANGED rsp_buf
    [] cmd_state = "CRC1" -> Answer("CRC2", 0) /\ UNCHANGED <<rsp_buf, block_cnt>>
    [] cmd_state = "CRC2" -> Answer("IDLE", 0) /\ UNCHANGED <<rsp_buf, block_cnt>>
    [] cmd_state = "R1" -> Answer("IDLE", 255) /\ UNCHANGED <<rsp_buf, block_cnt>>
    [] OTHER -> Answer(cmd_state, 255) /\ UNCHANGED <<rsp_buf, block_cnt>>

sdcard_spi_get ==
  \/ ~init /\ UNCHANGED card
  \/ /\ init /\ Fetch
     /\ UNCHANGED <<init, card_state, cmd_buf, acmd_pend, acmd41_cnt, sector_buf>>

SpiGets == IF init THEN out_reg ELSE 255

(* sdcard_init: the image is there, or not.                                 *)
sdcard_init ==
  /\ init \in BOOLEAN
  /\ card_state = "SD_MODE" /\ cmd_state = "IDLE" /\ cmd_buf = <<>> /\ rsp_buf = <<>>
  /\ out_reg = IF init THEN 255 ELSE 0
  /\ acmd_pend = FALSE /\ acmd41_cnt = 0
  /\ sector_buf = [i \in 1 .. SectorSize |-> 0] /\ block_cnt = 0

SdCardTypeOK ==
  /\ card_state \in {"SD_MODE", "INIT", "READY"}
  /\ cmd_state \in {"IDLE", "CMD", "R1", "R7", "R1_DATA", "DATA_START_TOKEN", "DATA", "CRC1", "CRC2"}
  /\ Len(cmd_buf) < 6 /\ Len(rsp_buf) <= 4 /\ Len(sector_buf) = SectorSize
  /\ acmd41_cnt \in 0 .. 6 /\ block_cnt \in 0 .. SectorSize
  /\ cmd_state = "DATA" => block_cnt < SectorSize
================================================================================
