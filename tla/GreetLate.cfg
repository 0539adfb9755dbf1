CONSTANTS
    Setups <- LateEgl
    Sizes = {1, 2}
    Preset = 1
    Buffers = {11, 12, 13}
SPECIFICATION Spec
INVARIANT SurfaceAfterConfigure
