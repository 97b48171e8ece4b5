---------------------------- MODULE MCPacketPath ----------------------------
(* PacketPath over the sampled frames, packets and rules of Traffic.       *)
EXTENDS PacketPath

Samples == INSTANCE Traffic

MCFrames == {Samples!Tcp, Samples!Dns}
MCFilters == Samples!SampleFilters
MCParsedFrames == Samples!SampleFrames
MCRules == Samples!SampleRules
MCParsed == Samples!ParsedPackets
MCPackets == Samples!SamplePackets
MCThreshold == Samples!SampleThreshold
MCSuffixes == Samples!SampleLongSuffixes
MCEncoded == Samples!SampleEncoded
MCAllowedDomains == Samples!SampleAllowedDomains
=============================================================================
