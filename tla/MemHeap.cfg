\* The constants of mem_heap.c; heaps of two, three and seventy pages, and
\* one that is not a whole number of pages.
SPECIFICATION Spec
CONSTANTS
    PAGE = 4096
    WORD = 8
    CLASS_MAX = 15
    BUFF_SIZE = 65536
    Adds = {1048576}
    Sizes = {8192, 12288, 286720, 10000}
INVARIANT HeapMapBuilt
