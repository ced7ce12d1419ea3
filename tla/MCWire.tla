------------------------------- MODULE MCWire -------------------------------
(* Inputs of Wire: the smallest, the largest and the ones around a carry.  *)
EXTENDS Wire

IdsV == {1, 258, 16777216 + 65536}
HostLengthsV == {0, 1, 3, 255, 256}
AddressesV == {<<0, 0, 0, 0>>, <<1, 2, 3, 4>>, <<10, 99, 100, 255>>}
PortsV == {0, 53, 255, 256, 65535}
DataLengthsV == {0, 1, 3}
StrayBytesV == {0, 1}
=============================================================================
