----------------------------- MODULE GuestWindows -----------------------------
(* The windows and device contexts of a Windows program that the interpreter   *)
(* runs (WindowManager and GdiManager of win32_stubs.rs, called from            *)
(* Cpu::dispatch_stub in cpu.rs), its message queue, and what the run reports    *)
(* of them (GuiSideEffects).  Titles, positions and pixels are left out.         *)
EXTENDS Naturals, Sequences, FiniteSets

CONSTANTS
    Class,      \* names of window classes
    LastWindow, \* bound on the windows made
    LastDc,     \* bound on the device contexts made
    MaxQueue,   \* bound on the messages that wait; the code has none
    MaxFrames   \* the count of frames stops here; u64 in the code

ASSUME WindowsAssumption == {LastWindow, LastDc, MaxQueue, MaxFrames} \subseteq Nat \ {0}

VARIABLES
    classes,    \* WindowManager.classes
    window,     \* WindowManager.windows: absent, hidden or visible
    nextWindow, \* next_hwnd
    queue,      \* message_queue
    gone,       \* history: windows whose WM_DESTROY was taken from the queue
    contexts,   \* GdiManager.contexts
    sized,      \* the keys of Cpu.hdc_size
    nextDc,     \* next_hdc
    gui         \* side_effects.gui: window named, visible, closed, frames

windowVars == <<classes, window, nextWindow, queue, gone, contexts, sized, nextDc, gui>>

Window == 1 .. LastWindow
Dc == 1 .. LastDc
NoWindow == 0
QueuedMessage == [hwnd : Window \union {NoWindow},
                  message : {"WM_CREATE", "WM_PAINT", "WM_DESTROY", "WM_QUIT"}]

WindowsTypeOK ==
    /\ classes \subseteq Class
    /\ window \in [Window -> {"absent", "hidden", "visible"}]
    /\ nextWindow \in 1 .. LastWindow + 1 /\ nextDc \in 1 .. LastDc + 1
    /\ queue \in Seq(QueuedMessage) /\ Len(queue) <= MaxQueue /\ gone \subseteq Window
    /\ contexts \subseteq Dc /\ sized \subseteq Dc
    /\ gui \in [hwnd : 0 .. LastWindow, visible : BOOLEAN,
                closed : BOOLEAN, frames : 0 .. MaxFrames]

WindowsInit ==
    /\ classes = {} /\ window = [w \in Window |-> "absent"] /\ nextWindow = 1
    /\ queue = << >> /\ gone = {}
    /\ contexts = {} /\ sized = {} /\ nextDc = 1
    /\ gui = [hwnd |-> NoWindow, visible |-> FALSE, closed |-> FALSE, frames |-> 0]

Post(w, m) ==
    /\ Len(queue) < MaxQueue
    /\ queue' = Append(queue, [hwnd |-> w, message |-> m])

\* present_compositor_frame on the report g.
Presented(g) == [g EXCEPT !.frames = IF @ < MaxFrames THEN @ + 1 ELSE @]

\* write_gui_evidence on the report g: a report always has a frame.
Evidence(g) == [g EXCEPT !.frames = IF @ = 0 THEN 1 ELSE @]

dcVars == <<contexts, sized, nextDc>>

RegisterClassA(c) ==
    /\ c \notin classes /\ classes' = classes \union {c}
    /\ UNCHANGED <<window, nextWindow, queue, gone, dcVars, gui>>

CreateWindowExA(c) ==
    /\ c \in classes /\ nextWindow <= LastWindow
    /\ window' = [window EXCEPT ![nextWindow] = "hidden"]
    /\ nextWindow' = nextWindow + 1
    /\ Post(nextWindow, "WM_CREATE")
    /\ gui' = [gui EXCEPT !.hwnd = nextWindow]
    /\ UNCHANGED <<classes, gone, dcVars>>

\* ShowWindow(w, TRUE), ShowWindow(w, FALSE), and either on a window that is not.
Named(w) == IF gui.hwnd = NoWindow THEN w ELSE gui.hwnd

Show(w) ==
    /\ window[w] # "absent"
    /\ window' = [window EXCEPT ![w] = "visible"]
    /\ Post(w, "WM_PAINT")
    /\ gui' = Presented([gui EXCEPT !.visible = TRUE, !.hwnd = Named(w)])
    /\ UNCHANGED <<classes, nextWindow, gone, dcVars>>

Hide(w) ==
    /\ window[w] # "absent"
    /\ window' = [window EXCEPT ![w] = "hidden"]
    /\ gui' = [gui EXCEPT !.visible = FALSE, !.hwnd = Named(w)]
    /\ UNCHANGED <<classes, nextWindow, queue, gone, dcVars>>

ShowNothing(w) ==
    /\ window[w] = "absent"
    /\ gui' = [gui EXCEPT !.visible = FALSE, !.hwnd = Named(w)]
    /\ UNCHANGED <<classes, window, nextWindow, queue, gone, dcVars>>

\* Mutation: the window is not looked up.
UpdateAny(w) ==
    /\ w < nextWindow
    /\ Post(w, "WM_PAINT")
    /\ gui' = Presented(gui)
    /\ UNCHANGED <<classes, window, nextWindow, gone, dcVars>>

\* UpdateWindow posts a WM_PAINT if the window is there.
UpdateWindow(w) ==
    /\ window[w] # "absent"
    /\ Post(w, "WM_PAINT")
    /\ gui' = Presented(gui)
    /\ UNCHANGED <<classes, window, nextWindow, gone, dcVars>>

\* GetMessageA takes the oldest message, of a window that is gone too.
GetMessageA ==
    /\ queue # << >>
    /\ queue' = Tail(queue)
    /\ gone' = IF Head(queue).message = "WM_DESTROY"
               THEN gone \union {Head(queue).hwnd} ELSE gone
    /\ UNCHANGED <<classes, window, nextWindow, dcVars, gui>>

\* DispatchMessageA presents a frame for WM_PAINT; it is given any message.
DispatchMessageA ==
    /\ gui' = Presented(gui)
    /\ UNCHANGED <<classes, window, nextWindow, queue, gone, dcVars>>

DestroyWindow(w) ==
    /\ window[w] # "absent"
    /\ window' = [window EXCEPT ![w] = "absent"]
    /\ Post(w, "WM_DESTROY")
    /\ gui' = Evidence([gui EXCEPT !.visible = FALSE, !.closed = TRUE])
    /\ UNCHANGED <<classes, nextWindow, gone, dcVars>>

PostQuitMessage ==
    Post(NoWindow, "WM_QUIT")
        /\ UNCHANGED <<classes, window, nextWindow, gone, dcVars, gui>>

\* GetDC and CreateCompatibleDC both make a context of their own.
GetDC ==
    /\ nextDc <= LastDc
    /\ contexts' = contexts \union {nextDc} /\ sized' = sized \union {nextDc}
    /\ nextDc' = nextDc + 1
    /\ UNCHANGED <<classes, window, nextWindow, queue, gone, gui>>

\* ReleaseDC and DeleteDC, of a context that may be gone.
DeleteDC(d) ==
    /\ contexts' = contexts \ {d} /\ sized' = sized \ {d}
    /\ UNCHANGED <<classes, window, nextWindow, queue, gone, nextDc, gui>>

BitBlt == gui' = Presented(gui) /\ UNCHANGED <<classes, window, nextWindow, queue, gone, dcVars>>

WindowsNext ==
    \/ \E c \in Class : RegisterClassA(c) \/ CreateWindowExA(c)
    \/ \E w \in Window : Show(w) \/ Hide(w) \/ ShowNothing(w) \/ UpdateWindow(w) \/ DestroyWindow(w)
    \/ GetMessageA \/ DispatchMessageA \/ PostQuitMessage
    \/ GetDC \/ BitBlt
    \/ \E d \in Dc : DeleteDC(d)

WindowsSpec == WindowsInit /\ [][WindowsNext]_windowVars

-----------------------------------------------------------------------------
Of(w, m) == {i \in DOMAIN queue : queue[i] = [hwnd |-> w, message |-> m]}

\* A window's messages end with its WM_DESTROY: once the window is destroyed no
\* message for it joins the queue, so that none is taken after its WM_DESTROY;
\* it is taken once; and a window that is there has no WM_DESTROY.
NothingAfterDestroy ==
    \A w \in Window :
        /\ w \in gone => \A i \in DOMAIN queue : queue[i].hwnd # w
        /\ \A i \in Of(w, "WM_DESTROY") : \A j \in i + 1 .. Len(queue) : queue[j].hwnd # w
        /\ window[w] # "absent" => w \notin gone /\ Of(w, "WM_DESTROY") = {}
=============================================================================
