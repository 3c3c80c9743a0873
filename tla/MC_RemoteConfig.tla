-------------------------- MODULE MC_RemoteConfig --------------------------
(***************************************************************************)
(* Small instances of RemoteConfig for TLC.  Each run's cfg picks its      *)
(* file table, rconfig.txt contents and the datagrams the network          *)
(* delivers from the definitions below.                                    *)
(***************************************************************************)
EXTENDS RemoteConfig

\* rconfig.txt as shipped (everything open), locked down (writes and uptime
\* off) and with the listener disabled at boot.
Open   == [disable |-> FALSE, reboot |-> TRUE,  uptime |-> TRUE,  disableWrite |-> FALSE]
Locked == [disable |-> FALSE, reboot |-> TRUE,  uptime |-> FALSE, disableWrite |-> TRUE]
Off    == [disable |-> TRUE,  reboot |-> FALSE, uptime |-> FALSE, disableWrite |-> FALSE]

MCRconfigVals == {Open, Locked, Off}
MCRconfigValsBridge == {Open, Locked}

MCFilesSmall == {"RCONFIG", "NETWORK"}
MCFilesAll == {"RCONFIG", "NETWORK", "ARTNET", "DEVICES"}

\* sizeof of each record; the Art-Net and the devices pairs differ.
MCRecSize ==
  [m \in Modules |->
     CASE m = RC              -> 4
       [] m = "NetworkParams" -> 40
       [] m = "ArtNetParams"  -> 50
       [] m = "ArtNet4Params" -> 60
       [] m = TLC             -> 20
       [] m = WS              -> 30
       [] OTHER               -> 10]

\* One TLC59711 text the length of a WS28xx record, one of another length.
MCBuiltTextSizes == {30, 90}

MCMaxBlocks == 2

Dg(h, a, nl) ==
  [head |-> h, arg |-> a, file |-> "RCONFIG", size |-> 0, val |-> NoVal, nl |-> nl]
FileDg(h, f, size, v) ==
  [head |-> h, arg |-> "", file |-> f, size |-> size, val |-> v, nl |-> FALSE]

\* The TFTP gate: "!tftp#" with '1', '0' and a two-byte tail, its query,
\* display sleep (which "!tftp#1" undoes) and reboot.
TftpDatagrams ==
  {Dg("!tftp#", a, FALSE) : a \in {"1", "0", "xx"}} \cup
  {Dg("?tftp#", "", FALSE), Dg("!display#", "0", FALSE), Dg("?reboot##", "", FALSE)}

\* Every command, with each tail, a few ending in '\n'; an rconfig.txt
\* write of every content, and the reads of a known and an unknown file.
DispatchDatagrams ==
  {Dg(h, a, FALSE) :
     h \in {"?reboot##", "?uptime#", "?list#", "?display#", "!display#",
            "!tftp#", "?", "!"},
     a \in {"", "bin", "0"}} \cup
  {Dg("!tftp#", "1", FALSE), Dg("?version#", "", FALSE), Dg("?tftp#", "bin", FALSE),
   Dg("*", "xx", FALSE)} \cup
  {Dg("?", "xx", TRUE), Dg("?", "", TRUE), Dg("!display#", "", TRUE),
   Dg("?uptime#", "", TRUE)} \cup
  {FileDg("#", "RCONFIG", 1, r) : r \in MCRconfigVals} \cup
  {FileDg(h, f, 0, NoVal) : h \in {"?get#", "?store#"}, f \in {"RCONFIG", LAST}}

\* Every command and every TFTP gate command together.
GateDatagrams == DispatchDatagrams \cup TftpDatagrams

\* File writes of every file in both modes, record sizes right and wrong,
\* and the reads.
BridgeDatagrams ==
  {FileDg("#", f, 1, v) : f \in {"NETWORK", "ARTNET", "DEVICES"}, v \in Vals} \cup
  {FileDg("#", "RCONFIG", 1, r) : r \in MCRconfigValsBridge} \cup
  {FileDg("!store#", f, n, v) :
     f \in {"NETWORK", "ARTNET", "DEVICES"}, n \in {40, 50, 60, 20, 30}, v \in Vals} \cup
  {FileDg("#", LAST, 1, NoVal), FileDg("!store#", LAST, 20, NoVal)} \cup
  {FileDg("?get#", f, 0, NoVal) : f \in MCFilesAll \cup {LAST}}

=============================================================================
