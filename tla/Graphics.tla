------------------------------- MODULE Graphics -------------------------------
(* The handles of strawwu-graphics: the Vulkan ICD (vulkan.rs), the WGL bridge  *)
(* (opengl.rs), and the D3D11 and DXGI translators (d3d11.rs, dxgi.rs).  Every  *)
(* allocator counts up from a base that the model puts at 1.  What is drawn,    *)
(* the extensions, and the error returns, which change nothing, are left out.   *)
EXTENDS Naturals, FiniteSets

CONSTANTS LastObject, LastContext, LastResource, MaxPhysical  \* bounds on what is given out

ASSUME GraphicsAssumption == {LastObject, LastContext, LastResource, MaxPhysical} \subseteq Nat

VARIABLES
    vk,         \* VulkanIcd: the handle of each object, 0 for none
    vkNext,     \* next_handle
    physical,   \* Len(physical_devices); destroy does not clear it
    presented,  \* frame_index
    glContexts, \* WglBridge.contexts: the state of each, "none" when not in the map
    current,    \* current_context, 0 for none
    ctxNext,    \* next_context_id
    factory,    \* DxgiTranslator.initialized
    resources,  \* D3D11Device.resources: kind by handle
    cleared     \* history: the views clear_render_target accepted

vkVars == <<vk, vkNext, physical, presented>>
wglVars == <<glContexts, current, ctxNext>>
d3dVars == <<factory, resources, cleared>>

VkObject == {"instance", "surface", "device", "graphicsQueue", "presentQueue",
             "swapchain", "commandPool"}
GlState == {"default", "clear", "blend"}
Kind == {"Buffer", "Texture2D", "RenderTargetView", "Shader", "InputLayout"}
Made(o) == vk[o] # 0
Handles == DOMAIN resources

VkTypeOK ==
    /\ vk \in [VkObject -> 0 .. LastObject] /\ vkNext \in 1 .. LastObject + 1
    /\ physical \in 0 .. MaxPhysical
    /\ presented \in 0 .. LastObject

WglTypeOK ==
    /\ glContexts \in [1 .. LastContext -> GlState \union {"none"}]
    /\ current \in 0 .. LastContext /\ ctxNext \in 1 .. LastContext + 1

D3dTypeOK ==
    /\ factory \in BOOLEAN
    /\ Handles \subseteq 1 .. LastResource /\ \A h \in Handles : resources[h] \in Kind
    /\ cleared \subseteq 1 .. LastResource

VkInit ==
    /\ vk = [o \in VkObject |-> 0] /\ vkNext = 1 /\ physical = 0
    /\ presented = 0

\* alloc_handle for each of a sequence of objects, one after the other.
Make(first, rest) ==
    /\ vkNext + Cardinality(rest) <= LastObject
    /\ vk' = [o \in VkObject |->
           IF o = first THEN vkNext
           ELSE IF o \in rest THEN vkNext + (IF o = "presentQueue" THEN 2 ELSE 1)
           ELSE vk[o]]
    /\ vkNext' = vkNext + 1 + Cardinality(rest)

\* create_instance does not ask whether there is one.
CreateInstance ==
    /\ physical < MaxPhysical /\ physical' = physical + 1
    /\ Make("instance", {}) /\ UNCHANGED presented

\* initialize.
InitializeIcd == ~Made("instance") /\ CreateInstance

CreateSurface == Made("instance") /\ Make("surface", {}) /\ UNCHANGED <<physical, presented>>

\* initialized and instance are set and cleared together.
CreateDevice ==
    /\ Made("instance") /\ physical > 0
    /\ Make("device", {"graphicsQueue", "presentQueue"}) /\ UNCHANGED <<physical, presented>>

CreateSwapchain(width, height) ==
    /\ Made("device") /\ Made("surface") /\ width > 0 /\ height > 0
    /\ Make("swapchain", {}) /\ UNCHANGED <<physical, presented>>

CreateCommandPool ==
    /\ Made("device") /\ Make("commandPool", {}) /\ UNCHANGED <<physical, presented>>

\* acquire_next_image changes nothing.
QueuePresent ==
    /\ Made("swapchain") /\ presented < LastObject /\ presented' = presented + 1
    /\ UNCHANGED <<vk, vkNext, physical>>

\* Mutation: destroy that forgets the swapchain.
DestroyKeepsSwapchain ==
    /\ vk' = [o \in VkObject |-> IF o = "swapchain" THEN vk[o] ELSE 0]
    /\ UNCHANGED <<vkNext, physical, presented>>

Destroy == vk' = [o \in VkObject |-> 0] /\ UNCHANGED <<vkNext, physical, presented>>

VkNext ==
    \/ CreateInstance \/ InitializeIcd \/ CreateSurface \/ CreateDevice
    \/ \E w, h \in 0 .. 1 : CreateSwapchain(w, h)
    \/ CreateCommandPool \/ QueuePresent \/ Destroy

-----------------------------------------------------------------------------
(* WGL contexts.                                                                *)

Context == {c \in 1 .. LastContext : glContexts[c] # "none"}

WglInit ==
    glContexts = [c \in 1 .. LastContext |-> "none"] /\ current = 0 /\ ctxNext = 1

WglCreateContext ==
    /\ ctxNext <= LastContext /\ ctxNext' = ctxNext + 1
    /\ glContexts' = [glContexts EXCEPT ![ctxNext] = "default"]
    /\ UNCHANGED current

WglMakeCurrent(c) == c \in Context /\ current' = c /\ UNCHANGED <<glContexts, ctxNext>>

WglDeleteContext(c) ==
    /\ c \in Context
    /\ glContexts' = [glContexts EXCEPT ![c] = "none"]
    /\ current' = IF current = c THEN 0 ELSE current
    /\ UNCHANGED ctxNext

\* gl_clear_color, gl_viewport, gl_enable and the others: the current context's
\* state; without one the call fails.
GlSet(state) ==
    /\ current # 0
    /\ glContexts' = [glContexts EXCEPT ![current] = state]
    /\ UNCHANGED <<current, ctxNext>>

WglNext ==
    \/ WglCreateContext
    \/ \E c \in 1 .. LastContext : WglMakeCurrent(c) \/ WglDeleteContext(c)
    \/ \E state \in GlState \ {"default"} : GlSet(state)

-----------------------------------------------------------------------------
(* D3D11 resources and the DXGI factory.                                      *)

D3dInit == factory = FALSE /\ resources = << >> /\ cleared = {}

CreateFactory == factory' = TRUE /\ UNCHANGED <<resources, cleared>>

\* track, for every kind of resource.
CreateResource(kind) ==
    /\ Cardinality(Handles) < LastResource
    /\ resources' = [h \in 1 .. Cardinality(Handles) + 1 |->
           IF h \in Handles THEN resources[h] ELSE kind]
    /\ UNCHANGED <<factory, cleared>>

ClearRenderTarget(h) ==
    /\ h \in Handles /\ resources[h] = "RenderTargetView"
    /\ cleared' = cleared \union {h} /\ UNCHANGED <<factory, resources>>

D3dNext ==
    \/ CreateFactory
    \/ \E kind \in Kind : CreateResource(kind)
    \/ \E h \in 1 .. LastResource : ClearRenderTarget(h)

-----------------------------------------------------------------------------
GraphicsInit == VkInit /\ WglInit /\ D3dInit

\* The three share nothing.
GraphicsNext ==
    \/ VkNext /\ UNCHANGED <<wglVars, d3dVars>>
    \/ WglNext /\ UNCHANGED <<vkVars, d3dVars>>
    \/ D3dNext /\ UNCHANGED <<vkVars, wglVars>>

GraphicsSpec == GraphicsInit /\ [][GraphicsNext]_<<vkVars, wglVars, d3dVars>>

-----------------------------------------------------------------------------
\* After any order of creations, presents and destructions: a swapchain has a
\* device and a surface, everything has an instance, and no two objects share a
\* handle, one that was destroyed included.  A current context is one that
\* exists, so that no call sets the state of a deleted one.
ObjectsAlive ==
    /\ Made("swapchain") => Made("device") /\ Made("surface")
    /\ Made("device") => Made("graphicsQueue") /\ Made("presentQueue")
    /\ \A o \in VkObject : Made(o) => Made("instance") /\ vk[o] < vkNext
    /\ \A o, q \in VkObject : Made(o) /\ vk[o] = vk[q] => o = q
    /\ current # 0 => current \in Context
=============================================================================
