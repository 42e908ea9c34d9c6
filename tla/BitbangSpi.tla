------------------------------- MODULE BitbangSpi ------------------------------
(***************************************************************************)
(* The SPI bus that a program drives through port B of the VIA,             *)
(* plat/cb6502/bitbang_spi.c, with the SD card behind it: a write to the    *)
(* port calls back into the SPI, which shifts a bit, at the end of a byte   *)
(* hands it to the card, and writes the pins of the same port.             *)
(*                                                                         *)
(* Of the pins of port B it looks at those that a program sets, and sets    *)
(* its own (cb6502 wires them).  The programs are in ViaPrograms.           *)
(***************************************************************************)
EXTENDS Via, SdCard

VARIABLES
  spi_cnt, spi_out, spi_clk_state, sdcard_sel, sdcard_in

spi == <<spi_cnt, spi_out, spi_clk_state, sdcard_sel, sdcard_in>>

Inputs == {"MISO", "DETECT"}

ASSUME BitbangSpiAssumption == {"CLK", "MOSI", "SS"} \cup Inputs \subseteq Pin

-----------------------------------------------------------------------------
(* bitbang_spi_update_outputs, for a state of the card's side.              *)
Outputs(sel, in) ==
  (IF ~sel \/ in >= 128 THEN {"MISO"} ELSE {}) \cup (IF init THEN {"DETECT"} ELSE {})

(* bitbang_portb_write: the first rising edge of a byte fetches the card's  *)
(* byte, the others shift it; the eighth hands the program's byte over.     *)
Shifted(data) == (2 * spi_out + IF "MOSI" \in data THEN 1 ELSE 0) % 256

CardSide(sel) ==
  \/ ~sel /\ UNCHANGED sdcard_in
  \/ sel /\ spi_cnt = 0 /\ sdcard_in' = SpiGets
  \/ sel /\ spi_cnt # 0 /\ sdcard_in' = (2 * sdcard_in) % 256

RisingEdge(data, sel) ==
  /\ CardSide(sel)
  /\ spi_cnt' = (spi_cnt + 1) % 8
  /\ spi_out' = IF spi_cnt = 7 THEN 0 ELSE Shifted(data)
  /\ IF ~sel \/ spi_cnt \notin {0, 7} THEN UNCHANGED card
     ELSE IF spi_cnt = 0 THEN sdcard_spi_get ELSE sdcard_spi_write(Shifted(data))

bitbang_portb_write(data) ==
  /\ sdcard_sel' = ("SS" \notin data)
  /\ IF "CLK" \in data /\ ~spi_clk_state THEN RisingEdge(data, sdcard_sel')
     ELSE UNCHANGED <<spi_cnt, spi_out, sdcard_in, card>>
  /\ spi_clk_state' = ("CLK" \in data)
  /\ WritePort("B", Inputs, Outputs(sdcard_sel', sdcard_in'))

(* bitbang_spi_init, which tells the pins at once.                          *)
bitbang_spi_init ==
  /\ spi_cnt = 0 /\ spi_out = 0 /\ spi_clk_state = FALSE
  /\ sdcard_sel = FALSE /\ sdcard_in = 0
================================================================================
