------------------------------- MODULE HostNames -------------------------------
(* What the host names by counting: the Linux path of a device that is plugged  *)
(* in (DeviceProxy) and the id of a stream (AudioInput) are made from the       *)
(* number of devices or streams there are.  Neither part calls the other.       *)
EXTENDS DeviceProxy, AudioInput

NamesSpec == PlugSpec /\ AudioSpec

\* What is named after the number of things there are stays apart from what is
\* there: the paths of devices and the streams of the sound server.
NamesApart == PathsApart /\ StreamsApart
=============================================================================
