---------------------------- MODULE MCSessionSetup ----------------------------
(***************************************************************************)
(* Instances of SessionSetup.  Both peers list all properties but          *)
(* ChannelList, which the application asks for and is refused.             *)
(***************************************************************************)
EXTENDS SessionSetup

CONSTANTS alice, bob, ChannelList

Properties == {ResourceList, DeviceInfo, AllCtrlList, ProgramList, ChannelList}
Listed == [peer \in Peers |-> {DeviceInfo, AllCtrlList, ProgramList}]
=============================================================================
