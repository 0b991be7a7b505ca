----------------------------- MODULE MCPatchram -----------------------------
(***************************************************************************)
(* Instances of Patchram: command lines that lead to every step, a file of *)
(* two records, an older controller that sends two bytes.                  *)
(***************************************************************************)
EXTENDS Patchram

Opt(o) == [option |-> o, arg |-> TRUE]
Rate(r) == [option |-> "baudrate", arg |-> r]
File(f) == [option |-> "patchram", arg |-> f]
Port == Opt("port")

\* As in an init script, as for a fast line, without a file; and wrong ones.
Lines ==
    { << File("bcm.hcd"), Opt("bd_addr"), Opt("enable_hci"), Port >>,
      << File("bcm.hcd"), Rate(4000000), Opt("use_baudrate_for_download"), Opt("tosleep"),
         Opt("enable_lpm"), Port >>,
      << Rate(3000000), Opt("scopcm"), Opt("i2s"), Port >>,
      << File("bcm.bin"), Port >>,
      << Rate(9600), Port >>,
      << [option |-> "i2s", arg |-> FALSE], Port >>,
      << Opt("enable_lpm"), [option |-> "port", arg |-> FALSE] >> }

HcdFiles == {"bcm.hcd"}
Firmware == <<"write_ram", "launch_ram">>
Ready == <<255, 255>>
=============================================================================
