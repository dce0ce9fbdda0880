SPECIFICATION Spec
CONSTANTS
    Size = 13
    Stride = 8
    PageBytes = 4
    Nodes <- MCNodes
    Cmp <- avl_cmp_vm_sort_region
    Address <- MCAddress
    Extent <- MCExtent
INVARIANTS
    TreeBalanced
    TraversalsInOrder
    LookupsFind
