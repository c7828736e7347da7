----------------------------- MODULE MCSubsystems -----------------------------
(* What a program is started, run and served by: sessions and processes, the    *)
(* objects programs share, a program's memory, files, windows and processor,    *)
(* the devices, sound, input and graphics it is given, and the Wine prefixes.   *)
(* No two of these parts share a variable and none calls another, so the        *)
(* reachable states of the whole are the product of those of the parts, and an  *)
(* invariant about one part needs that part alone: an initial state picks the   *)
(* part that moves, of those of the run.                                        *)
EXTENDS RuntimeSessions, NtIpc, NtMemory, GuestFiles, GuestWindows, GuestCpu,
        HostNames, Graphics, EnginePrefix, NtImage, NtPackage, TLC

CONSTANTS p1, p2, log, out, w1, w2, evdev, dll, fun
CONSTANT Parts      \* the parts of a run

VARIABLE part       \* the part that moves

\* Two files in different directories, with one name.
MCNameOf == p1 :> log @@ p2 :> log
\* Two virtual devices from the start, with one Linux path, as the keyboard and
\* the mouse of default_device_map.
MCBuiltin == <<[path |-> w1, linux |-> evdev], [path |-> w2, linux |-> evdev]>>
\* One word of the image, and a stack of two, of which the last is the first used.
MCMappedRegions == {1 .. 2, 3 .. 6}
\* Programs with up to two sections anywhere, or with two DLLs, and programs of
\* every width with one.
MCSections == [va : 0 .. 2, size : {0, 2}, raw : 1 .. 3, rawSize : 0 .. 2]
MCTables == UNION {[1 .. n -> {MainExe, fun, Unreadable}] : n \in 0 .. 2}
\* No table, one whose second slot overlaps that of another, one whose second
\* slot lies outside the image.
MCDlls == [dll : {dll, Unreadable}, thunk : {0, 1, 4}, table : MCTables]
Plain == [va |-> 0, size |-> 2, raw |-> 1, rawSize |-> 2]
MCNoImage == [valid |-> FALSE, plus |-> TRUE, wide |-> TRUE, length |-> 3, imports |-> << >>,
              sections |-> << >>]
MCSectionLists == UNION {[1 .. n -> MCSections] : n \in 0 .. 2}
MCImages ==
    {MCNoImage}
    \union [valid : {TRUE}, plus : {TRUE}, wide : {TRUE}, length : {3}, imports : {<< >>},
            sections : MCSectionLists]
    \union [valid : {TRUE}, plus : {TRUE}, wide : {TRUE}, length : {3}, sections : {<<Plain>>},
            imports : {<<d, e>> : d \in MCDlls, e \in {x \in MCDlls : x.dll = dll /\ x.thunk # 0}}]
    \union [valid : {TRUE}, plus : BOOLEAN, wide : BOOLEAN, length : {3}, sections : {<<Plain>>},
            imports : {<<d>> : d \in MCDlls}]
MCFixed == <<MainExe>>
\* A file that is itself an installer.
MCInstaller == <<Mz, Junk>> \o Encode(Swup, << [name |-> MainExe, data |-> <<Junk, 1>>] >>)
MCPackages == UNION {[1 .. n -> [name : {MainExe, OtherExe, BadName},
                                 data : {<< >>, <<Junk>>, MCInstaller}]] : n \in 0 .. 2}

\* The constants hold the fixed values that the initial states are made of.
ASSUME MCAssumption ==
    MCNoImage \in Images /\ [kind |-> "exe", files |-> << >>] \in Installers

vars == <<part, runtimeVars, pipeVars, sectionVars, eventVars, portVars,
          memoryVars, fileVars, windowVars, cpuVars, vfioVars,
          plugVars, ioctlVars, audioVars, inputVars, vkVars, wglVars, d3dVars, prefixVars,
          imageVars, packageVars>>

Init ==
    /\ part \in Parts
    /\ RuntimeInit /\ PipeInit /\ SectionInit /\ EventInit /\ PortInit
    /\ MemoryInit /\ FilesInit /\ WindowsInit /\ CpuInit
    /\ VfioInit /\ PlugInit /\ IoctlInit /\ AudioInit /\ InputInit
    /\ VkInit /\ WglInit /\ D3dInit /\ PrefixInit
    \* The choices among the initial states of a part are made where it moves.
    /\ part = "vfio" \/ iommu
    /\ \E f \in IF part = "image" THEN Images ELSE {MCNoImage} : ImageInit(f)
    /\ \E b \in IF part = "package" THEN Installers ELSE {[kind |-> "exe", files |-> << >>]} :
           PackageInit(b)

\* The parts that do not move.
RuntimeStays == UNCHANGED <<runtimeVars>>
IpcStays == UNCHANGED <<pipeVars, sectionVars, eventVars, portVars>>
ProgramStays == UNCHANGED <<memoryVars, fileVars, windowVars, cpuVars, imageVars, packageVars>>
ProxyStays == UNCHANGED <<vfioVars, plugVars, ioctlVars>>
AudioStays == UNCHANGED <<audioVars, inputVars>>
GraphicsStays == UNCHANGED <<vkVars, wglVars, d3dVars>>
PrefixesStays == UNCHANGED <<prefixVars>>

InProcesses ==
    /\ part = "processes" /\ GraphNext
    /\ IpcStays /\ ProgramStays /\ ProxyStays /\ AudioStays /\ GraphicsStays /\ PrefixesStays
    /\ UNCHANGED <<part, sessions, default, ctx, home, report>>

InSessions ==
    /\ part = "sessions" /\ RuntimeNext
    /\ IpcStays /\ ProgramStays /\ ProxyStays /\ AudioStays /\ GraphicsStays /\ PrefixesStays
    /\ UNCHANGED <<part>>

InPipes ==
    /\ part = "pipes" /\ PipeNext
    /\ RuntimeStays /\ ProgramStays /\ ProxyStays /\ AudioStays /\ GraphicsStays /\ PrefixesStays
    /\ UNCHANGED <<part, sectionVars, eventVars, portVars>>

InSections ==
    /\ part = "sections" /\ SectionNext
    /\ RuntimeStays /\ ProgramStays /\ ProxyStays /\ AudioStays /\ GraphicsStays /\ PrefixesStays
    /\ UNCHANGED <<part, pipeVars, eventVars, portVars>>

InEvents ==
    /\ part = "events" /\ EventNext
    /\ RuntimeStays /\ ProgramStays /\ ProxyStays /\ AudioStays /\ GraphicsStays /\ PrefixesStays
    /\ UNCHANGED <<part, pipeVars, sectionVars, portVars>>

InPorts ==
    /\ part = "ports" /\ PortNext
    /\ RuntimeStays /\ ProgramStays /\ ProxyStays /\ AudioStays /\ GraphicsStays /\ PrefixesStays
    /\ UNCHANGED <<part, pipeVars, sectionVars, eventVars>>

InMemory ==
    /\ part = "memory" /\ MemoryNext
    /\ RuntimeStays /\ IpcStays /\ ProxyStays /\ AudioStays /\ GraphicsStays /\ PrefixesStays
    /\ UNCHANGED <<part, fileVars, windowVars, cpuVars, imageVars, packageVars>>

InFiles ==
    /\ part = "files" /\ FilesNext
    /\ RuntimeStays /\ IpcStays /\ ProxyStays /\ AudioStays /\ GraphicsStays /\ PrefixesStays
    /\ UNCHANGED <<part, memoryVars, windowVars, cpuVars, imageVars, packageVars>>

InWindows ==
    /\ part = "windows" /\ WindowsNext
    /\ RuntimeStays /\ IpcStays /\ ProxyStays /\ AudioStays /\ GraphicsStays /\ PrefixesStays
    /\ UNCHANGED <<part, memoryVars, fileVars, cpuVars, imageVars, packageVars>>

InCpu ==
    /\ part = "cpu" /\ CpuNext
    /\ RuntimeStays /\ IpcStays /\ ProxyStays /\ AudioStays /\ GraphicsStays /\ PrefixesStays
    /\ UNCHANGED <<part, memoryVars, fileVars, windowVars, imageVars, packageVars>>

InImage ==
    /\ part = "image" /\ ImageNext
    /\ RuntimeStays /\ IpcStays /\ ProxyStays /\ AudioStays /\ GraphicsStays /\ PrefixesStays
    /\ UNCHANGED <<part, memoryVars, fileVars, windowVars, cpuVars, packageVars>>

InPackage ==
    /\ part = "package" /\ PackageNext
    /\ RuntimeStays /\ IpcStays /\ ProxyStays /\ AudioStays /\ GraphicsStays /\ PrefixesStays
    /\ UNCHANGED <<part, memoryVars, fileVars, windowVars, cpuVars, imageVars>>

InVfio ==
    /\ part = "vfio" /\ VfioNext
    /\ RuntimeStays /\ IpcStays /\ ProgramStays /\ AudioStays /\ GraphicsStays /\ PrefixesStays
    /\ UNCHANGED <<part, plugVars, ioctlVars>>

InHotplug ==
    /\ part = "hotplug" /\ PlugNext
    /\ RuntimeStays /\ IpcStays /\ ProgramStays /\ AudioStays /\ GraphicsStays /\ PrefixesStays
    /\ UNCHANGED <<part, vfioVars, ioctlVars>>

InIoctl ==
    /\ part = "ioctl" /\ IoctlNext
    /\ RuntimeStays /\ IpcStays /\ ProgramStays /\ AudioStays /\ GraphicsStays /\ PrefixesStays
    /\ UNCHANGED <<part, vfioVars, plugVars>>

InAudio ==
    /\ part = "audio" /\ AudioNext
    /\ RuntimeStays /\ IpcStays /\ ProgramStays /\ ProxyStays /\ GraphicsStays /\ PrefixesStays
    /\ UNCHANGED <<part, inputVars>>

InInput ==
    /\ part = "input" /\ InputNext
    /\ RuntimeStays /\ IpcStays /\ ProgramStays /\ ProxyStays /\ GraphicsStays /\ PrefixesStays
    /\ UNCHANGED <<part, audioVars>>

InVulkan ==
    /\ part = "vulkan" /\ VkNext
    /\ RuntimeStays /\ IpcStays /\ ProgramStays /\ ProxyStays /\ AudioStays /\ PrefixesStays
    /\ UNCHANGED <<part, wglVars, d3dVars>>

InWgl ==
    /\ part = "wgl" /\ WglNext
    /\ RuntimeStays /\ IpcStays /\ ProgramStays /\ ProxyStays /\ AudioStays /\ PrefixesStays
    /\ UNCHANGED <<part, vkVars, d3dVars>>

InD3d ==
    /\ part = "d3d" /\ D3dNext
    /\ RuntimeStays /\ IpcStays /\ ProgramStays /\ ProxyStays /\ AudioStays /\ PrefixesStays
    /\ UNCHANGED <<part, vkVars, wglVars>>

InPrefixes ==
    /\ part = "prefixes" /\ PrefixNext
    /\ RuntimeStays /\ IpcStays /\ ProgramStays /\ ProxyStays /\ AudioStays /\ GraphicsStays
    /\ UNCHANGED <<part>>

Next ==
    \/ InProcesses \/ InSessions \/ InPipes \/ InSections \/ InEvents \/ InPorts \/ InMemory
    \/ InFiles \/ InWindows \/ InCpu \/ InVfio \/ InHotplug \/ InIoctl
    \/ InAudio \/ InInput \/ InVulkan \/ InWgl \/ InD3d \/ InPrefixes
    \/ InImage \/ InPackage

Spec == Init /\ [][Next]_vars

-----------------------------------------------------------------------------
\* Every part keeps its types: process table, sessions, namespaces, memory,
\* files, windows, stack, devices, streams, slots, handles and prefixes.
TypeOK ==
    /\ part \in Parts /\ RuntimeTypeOK
    /\ PipeTypeOK /\ SectionTypeOK /\ EventTypeOK /\ PortTypeOK
    /\ MemoryTypeOK /\ FilesTypeOK /\ WindowsTypeOK /\ CpuTypeOK
    /\ VfioTypeOK /\ PlugTypeOK /\ IoctlTypeOK /\ AudioTypeOK /\ InputTypeOK
    /\ VkTypeOK /\ WglTypeOK /\ D3dTypeOK /\ PrefixTypeOK
    /\ ImageTypeOK /\ PackageTypeOK
=============================================================================
