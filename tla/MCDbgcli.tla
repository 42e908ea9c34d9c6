------------------------------- MODULE MCDbgcli -------------------------------
(* The constants for Dbgcli: what may fail, and the lines that are typed.   *)
EXTENDS Dbgcli

(* All but the emulator's own structure and the thread, see the README.     *)
MCFallible == {"mainclk", "rom", "rom_tick", "rom_conn", "aciaclk", "acia", "acia_tick",
               "acia_conn", "eventfd", "server_sock", SocketName, "via", "via_tick",
               "via_conn", "ram", "ram_conn", "image_fd", "spi_cb", "debugger", "sigdata"}

Line(words, at, len) == [words |-> words, at |-> at, len |-> len]

MCLines == {Line(<<>>, <<>>, 0), Line(<<>>, <<>>, 3),
            Line(<<"c">>, <<0>>, 1), Line(<<"b", "main">>, <<0, 2>>, 6),
            Line(<<"examine", "512", "3">>, <<1, 9, 15>>, 16),
            Line(<<"zap">>, <<0>>, 3), Line(<<"q">>, <<0>>, 1)}
===============================================================================
